---- MODULE Spec2Model ----
(***************************************************************************)
(* Model of XMakeCppCustomConfigurationProvider                            *)
(* (src/src/cpp_custom_configuration_provider.ts): the in-memory           *)
(* compile-commands index, its rebuild entry point updateCompileCommands   *)
(* and the cpptools query operations.                                      *)
(*                                                                         *)
(* Text is modelled as a sequence of one-character strings so that         *)
(* startsWith, substring, basename, join and relative are computed, not    *)
(* assumed.  Paths follow Node's posix `path` module.                      *)
(***************************************************************************)
EXTENDS Integers, Sequences, FiniteSets, TLC

\* ------------------------------------------------------------------ text

\* String.prototype.startsWith
StartsWith(s, p) ==
    /\ Len(s) >= Len(p)
    /\ \A i \in 1..Len(p) : s[i] = p[i]

\* String.prototype.substring(n): the text after the first n characters
Substring(s, n) ==
    IF n >= Len(s) THEN <<>> ELSE SubSeq(s, n + 1, Len(s))

UpperCase == <<"A","B","C","D","E","F","G","H","I","J","K","L","M",
               "N","O","P","Q","R","S","T","U","V","W","X","Y","Z">>
LowerCase == <<"a","b","c","d","e","f","g","h","i","j","k","l","m",
               "n","o","p","q","r","s","t","u","v","w","x","y","z">>

LowerChar(c) ==
    IF \E i \in 1..Len(UpperCase) : UpperCase[i] = c
    THEN LowerCase[CHOOSE i \in 1..Len(UpperCase) : UpperCase[i] = c]
    ELSE c

\* String.prototype.toLowerCase
ToLowerCase(s) == [i \in 1..Len(s) |-> LowerChar(s[i])]

\* Array.prototype.indexOf(x) === -1 is the negation of this
Contains(seq, x) == \E i \in 1..Len(seq) : seq[i] = x

\* ------------------------------------------------------------------ path (posix)

Sep == "/"
Dot == <<".">>
DotDot == <<".", ".">>

\* path.isAbsolute
IsAbsolute(p) == Len(p) > 0 /\ p[1] = Sep

RECURSIVE SplitFrom(_, _, _)
\* the segments of p[i..] between separators; cur is the segment being read
SplitFrom(p, i, cur) ==
    IF i > Len(p) THEN <<cur>>
    ELSE IF p[i] = Sep THEN <<cur>> \o SplitFrom(p, i + 1, <<>>)
    ELSE SplitFrom(p, i + 1, Append(cur, p[i]))

Split(p) == SplitFrom(p, 1, <<>>)

RECURSIVE JoinSegs(_)
JoinSegs(segs) ==
    IF Len(segs) = 0 THEN <<>>
    ELSE IF Len(segs) = 1 THEN segs[1]
    ELSE segs[1] \o <<Sep>> \o JoinSegs(Tail(segs))

RECURSIVE NormalizeSegs(_, _, _, _)
\* normalizeString of Node's path: drops "" and ".", resolves ".."
NormalizeSegs(segs, i, stack, allowAboveRoot) ==
    IF i > Len(segs) THEN stack
    ELSE IF segs[i] = <<>> \/ segs[i] = Dot
         THEN NormalizeSegs(segs, i + 1, stack, allowAboveRoot)
    ELSE IF segs[i] = DotDot
         THEN IF Len(stack) > 0 /\ stack[Len(stack)] # DotDot
              THEN NormalizeSegs(segs, i + 1, SubSeq(stack, 1, Len(stack) - 1), allowAboveRoot)
              ELSE IF allowAboveRoot
                   THEN NormalizeSegs(segs, i + 1, Append(stack, DotDot), allowAboveRoot)
                   ELSE NormalizeSegs(segs, i + 1, stack, allowAboveRoot)
    ELSE NormalizeSegs(segs, i + 1, Append(stack, segs[i]), allowAboveRoot)

\* path.normalize
Normalize(p) ==
    IF Len(p) = 0 THEN Dot
    ELSE LET abs      == IsAbsolute(p)
             trailing == p[Len(p)] = Sep
             body     == JoinSegs(NormalizeSegs(Split(p), 1, <<>>, ~abs))
         IN  IF Len(body) = 0
             THEN IF abs THEN <<Sep>> ELSE IF trailing THEN <<".", Sep>> ELSE Dot
             ELSE (IF abs THEN <<Sep>> ELSE <<>>) \o body
                  \o (IF trailing THEN <<Sep>> ELSE <<>>)

\* path.join(a, b)
\* mutant of PathJoin: the two texts are joined without normalising the result
PathJoinVerbatim(a, b) == a \o <<Sep>> \o b

PathJoin(a, b) ==
    IF Len(a) = 0 /\ Len(b) = 0 THEN Dot
    ELSE IF Len(a) = 0 THEN Normalize(b)
    ELSE IF Len(b) = 0 THEN Normalize(a)
    ELSE Normalize(a \o <<Sep>> \o b)

RECURSIVE StripTrailingSep(_)
StripTrailingSep(p) ==
    IF Len(p) > 0 /\ p[Len(p)] = Sep
    THEN StripTrailingSep(SubSeq(p, 1, Len(p) - 1))
    ELSE p

\* path.basename(p)
Basename(p) ==
    LET segs == Split(StripTrailingSep(p))
    IN  segs[Len(segs)]

\* path.resolve(p) for an absolute p: the normalized segments, no trailing separator
ResolveSegs(p) == NormalizeSegs(Split(p), 1, <<>>, FALSE)

RECURSIVE CommonPrefixLen(_, _, _)
CommonPrefixLen(a, b, n) ==
    IF n < Len(a) /\ n < Len(b) /\ a[n + 1] = b[n + 1]
    THEN CommonPrefixLen(a, b, n + 1)
    ELSE n

\* path.relative(from, to)
PathRelative(from, to) ==
    LET f  == ResolveSegs(from)
        t  == ResolveSegs(to)
        c  == CommonPrefixLen(f, t, 0)
        up == [i \in 1..(Len(f) - c) |-> DotDot]
    IN  JoinSegs(up \o SubSeq(t, c + 1, Len(t)))

\* Uri.file(p).fsPath on a posix host: a path without a leading separator gets one
UriFileFsPath(p) == IF IsAbsolute(p) THEN p ELSE <<Sep>> \o p

\* ------------------------------------------------------------------ classifier

\* the case labels of findStandard's switch
StandardCases ==
    { <<"c","8","9">>,
      <<"c","9","9">>,
      <<"c","1","1">>,
      <<"c","1","7">>,
      <<"c","+","+","9","8">>,
      <<"c","+","+","0","3">>,
      <<"c","+","+","1","1">>,
      <<"c","+","+","1","4">>,
      <<"c","+","+","1","7">>,
      <<"c","+","+","2","0">>,
      <<"g","n","u","8","9">>,
      <<"g","n","u","9","9">>,
      <<"g","n","u","1","1">>,
      <<"g","n","u","1","7">>,
      <<"g","n","u","+","+","9","8">>,
      <<"g","n","u","+","+","0","3">>,
      <<"g","n","u","+","+","1","1">>,
      <<"g","n","u","+","+","1","4">>,
      <<"g","n","u","+","+","1","7">>,
      <<"g","n","u","+","+","2","0">> }

\* the default arm of findStandard: "c++20"
StandardDefault == <<"c","+","+","2","0">>

\* the case labels of findIntelliSenseMode's switch
IntelliSenseModeCases ==
    { <<"m","s","v","c","-","x","8","6">>,
      <<"m","s","v","c","-","x","6","4">>,
      <<"m","s","v","c","-","a","r","m">>,
      <<"m","s","v","c","-","a","r","m","6","4">>,
      <<"g","c","c","-","x","8","6">>,
      <<"g","c","c","-","x","6","4">>,
      <<"g","c","c","-","a","r","m">>,
      <<"g","c","c","-","a","r","m","6","4">>,
      <<"c","l","a","n","g","-","x","8","6">>,
      <<"c","l","a","n","g","-","x","6","4">>,
      <<"c","l","a","n","g","-","a","r","m">>,
      <<"c","l","a","n","g","-","a","r","m","6","4">> }

\* the default arm of findIntelliSenseMode: "msvc-x86"
IntelliSenseModeDefault == <<"m","s","v","c","-","x","8","6">>

\* mutant of isMSVC: the base name is compared without lower-casing it
isMSVCCaseSensitive(args) == Basename(args[2]) = <<"c","l">>

\* args is a JavaScript array of strings: args[1] is its second element
isMSVC(args) == ToLowerCase(Basename(args[2])) = <<"c","l">>

OptionPrefix(args) == IF isMSVC(args) THEN <<"/">> ELSE <<"-">>

\* mutant of findIncludePaths: a path already in the list is not added again
findIncludePathsDistinct(dir, args) ==
    LET incs == SelectSeq(args, LAMBDA arg : StartsWith(arg, OptionPrefix(args) \o <<"I">>))
        Add(to, k) == LET includePath == Substring(incs[k], 2)
                          p == IF IsAbsolute(includePath) THEN includePath
                               ELSE PathJoin(dir, includePath)
                      IN  IF Contains(to, p) THEN to ELSE Append(to, p)
        F[k \in 0..Len(incs)] == IF k = 0 THEN <<>> ELSE Add(F[k - 1], k)
    IN  F[Len(incs)]

findIncludePaths(dir, args) ==
    LET includeOptionPrefix == OptionPrefix(args) \o <<"I">>
        IsInc(arg) == StartsWith(arg, includeOptionPrefix)
        incs == SelectSeq(args, IsInc)
    IN  [i \in 1..Len(incs) |->
            LET includePath == Substring(incs[i], 2)
            IN  IF IsAbsolute(includePath) THEN includePath
                ELSE PathJoin(dir, includePath)]

\* mutant of findDefines: only the name before "=" is kept
findDefinesNames(args) ==
    LET defs == SelectSeq(args, LAMBDA arg : StartsWith(arg, OptionPrefix(args) \o <<"D">>))
        NameOf(t) == LET eqs == { k \in 1..Len(t) : t[k] = "=" }
                     IN  IF eqs = {} THEN t
                         ELSE SubSeq(t, 1, (CHOOSE k \in eqs : \A j \in eqs : k <= j) - 1)
    IN  [i \in 1..Len(defs) |-> NameOf(Substring(defs[i], 2))]

findDefines(args) ==
    LET defineOptionPrefix == OptionPrefix(args) \o <<"D">>
        IsDef(arg) == StartsWith(arg, defineOptionPrefix)
        defs == SelectSeq(args, IsDef)
    IN  [i \in 1..Len(defs) |-> Substring(defs[i], 2)]

findCompilerPath(args) == args[2]

\* mutant of findCompiler: the MSVC driver cl is reported as msvc
findCompilerFamily(args) ==
    IF ToLowerCase(Basename(args[2])) = <<"c","l">> THEN <<"m","s","v","c">>
    ELSE ToLowerCase(Basename(args[2]))

findCompiler(args) == ToLowerCase(Basename(args[2]))

\* mutant of findCompilerArgs: arguments starting with {prefix}o are kept
findCompilerArgsKeepOutput(args) ==
    LET optionPrefix == OptionPrefix(args)
        Keep(arg) == /\ StartsWith(arg, optionPrefix)
                     /\ ~StartsWith(arg, optionPrefix \o <<"I">>)
                     /\ ~StartsWith(arg, optionPrefix \o <<"D">>)
                     /\ ~StartsWith(arg, optionPrefix \o <<"s","t","d">>)
    IN  SelectSeq(args, Keep)

findCompilerArgs(args) ==
    LET optionPrefix == OptionPrefix(args)
        Keep(arg) == /\ StartsWith(arg, optionPrefix)
                     /\ ~StartsWith(arg, optionPrefix \o <<"I">>)
                     /\ ~StartsWith(arg, optionPrefix \o <<"D">>)
                     /\ ~StartsWith(arg, optionPrefix \o <<"o">>)
                     /\ ~StartsWith(arg, optionPrefix \o <<"s","t","d">>)
    IN  SelectSeq(args, Keep)

\* mutant of findStandard: the last standard argument is taken, not the first
findStandardLast(args) ==
    LET standardPrefix == IF isMSVC(args) THEN <<"/","s","t","d",":">>
                          ELSE <<"-","s","t","d","=">>
        found == SelectSeq(args, LAMBDA arg : StartsWith(arg, standardPrefix))
    IN  IF Len(found) > 0
        THEN LET std == Substring(found[Len(found)], 5)
             IN  IF std \in StandardCases THEN std ELSE StandardDefault
        ELSE StandardDefault

\* mutant of findStandard: a value outside the switch is returned as it is
findStandardVerbatim(args) ==
    LET standardPrefix == IF isMSVC(args) THEN <<"/","s","t","d",":">>
                          ELSE <<"-","s","t","d","=">>
        found == SelectSeq(args, LAMBDA arg : StartsWith(arg, standardPrefix))
    IN  IF Len(found) > 0 THEN Substring(found[1], 5) ELSE StandardDefault

findStandard(args) ==
    LET standardPrefix == IF isMSVC(args) THEN <<"/","s","t","d",":">>
                          ELSE <<"-","s","t","d","=">>
        IsStd(arg) == StartsWith(arg, standardPrefix)
        found == SelectSeq(args, IsStd)
    IN  IF Len(found) > 0
        THEN LET std == Substring(found[1], 5)
             IN  IF std \in StandardCases THEN std ELSE StandardDefault
        ELSE StandardDefault

\* mutant of findIntelliSenseMode: on the windows platform the family is msvc
findIntelliSenseModeOfPlatform(args, platform, architecture) ==
    LET intelliArch == IF architecture = <<"x","8","6">> THEN <<"x","8","6">>
                       ELSE <<"x","6","4">>
        comp_arch == (IF platform = <<"w","i","n","d","o","w","s">> THEN <<"m","s","v","c">>
                      ELSE findCompiler(args)) \o <<"-">> \o intelliArch
    IN  IF comp_arch \in IntelliSenseModeCases THEN comp_arch
        ELSE IntelliSenseModeDefault

\* mutant of findIntelliSenseMode: the architecture label is looked up as given
findIntelliSenseModeOfLabel(args, platform, architecture) ==
    LET comp_arch == findCompiler(args) \o <<"-">> \o architecture
    IN  IF comp_arch \in IntelliSenseModeCases THEN comp_arch
        ELSE IntelliSenseModeDefault

findIntelliSenseMode(args, platform, architecture) ==
    LET intelliArch == IF architecture = <<"x","8","6">> THEN <<"x","8","6">>
                       ELSE <<"x","6","4">>
        comp_arch == findCompiler(args) \o <<"-">> \o intelliArch
    IN  IF comp_arch \in IntelliSenseModeCases THEN comp_arch
        ELSE IntelliSenseModeDefault

\* mutant of pushIfNotExist: an incoming element is compared with the elements
\* the list had before the call only
pushIfNotInTarget(to, from) ==
    to \o SelectSeq(from, LAMBDA incoming : ~Contains(to, incoming))

\* mutant of pushIfNotExist: a new element is put in front of the list
pushFrontIfNotExist(to, from) ==
    LET F[k \in 0..Len(from)] ==
            IF k = 0 THEN to
            ELSE IF Contains(F[k - 1], from[k]) THEN F[k - 1]
                 ELSE <<from[k]>> \o F[k - 1]
    IN  F[Len(from)]

\* mutant of pushIfNotExist: every incoming element is pushed
pushAlways(to, from) == to \o from

RECURSIVE pushIfNotExist(_, _)
\* the content of the array `to` after pushIfNotExist(to, from)
pushIfNotExist(to, from) ==
    IF Len(from) = 0 THEN to
    ELSE IF Contains(to, from[1])
         THEN pushIfNotExist(to, Tail(from))
         ELSE pushIfNotExist(Append(to, from[1]), Tail(from))

\* ------------------------------------------------------------------ JSON values

\* A value of the parsed compile_commands.json: t is its JSON kind, s the text of
\* a string, a the elements of an array.
Str(s) == [t |-> "string", s |-> s]
Arr(a) == [t |-> "array", a |-> a]
Num == [t |-> "number"]
Null == [t |-> "null"]
Missing == [t |-> "undefined"]

\* JavaScript's typeof
TypeOf(v) ==
    CASE v.t = "string" -> "string"
      [] v.t = "number" -> "number"
      [] v.t = "undefined" -> "undefined"
      [] OTHER -> "object"

\* the validation of updateCompileCommands
IsValidCommand(cmd) ==
    /\ TypeOf(cmd.directory) = "string"
    /\ TypeOf(cmd.file) = "string"
    /\ TypeOf(cmd.arguments) = "object"

\* The classifier reads args[1] with path.basename and calls startsWith on every
\* element: it raises a TypeError unless arguments is an array of strings with
\* at least two elements.
ArgumentsReadable(v) ==
    /\ v.t = "array"
    /\ Len(v.a) >= 2
    /\ \A i \in 1..Len(v.a) : v.a[i].t = "string"

\* the array of strings held by a readable arguments value
ArgStrings(v) == [i \in 1..Len(v.a) |-> v.a[i].s]

\* ------------------------------------------------------------------ maps

EmptyMap == [k \in {} |-> <<>>]

\* Map.prototype.set
MapSet(m, k, v) == [x \in (DOMAIN m) \cup {k} |-> IF x = k THEN v ELSE m[x]]

\* Map.prototype.get: def is FALSE for JavaScript's undefined
MapGet(m, k) ==
    IF k \in DOMAIN m THEN [def |-> TRUE, v |-> m[k]]
    ELSE [def |-> FALSE, v |-> <<>>]

\* ------------------------------------------------------------------ inputs

\* longest database, longest workspace-folder list, longest query list
MaxEntries == 2
MaxFolders == 2
MaxUris == 2
MaxPendingReads == 2
MaxJobs == 4
MaxStarts == 2
MaxCommands == 1

\* the workspace folders the host can have open
Folders == { <<"/","w">>, <<"/","w","/","f">> }

\* The records a compile_commands.json is drawn from:
\*  1  gcc command, relative file          2  cl command for the same file
\*  3  clang command whose file is the folder path itself (attributed to no folder)
\*  4  directory is a number                5  arguments is null
CommandPool ==
    << [directory |-> Str(<<"/","w">>), file |-> Str(<<"a">>),
        arguments |-> Arr(<<Str(<<"s">>), Str(<<"g","c","c">>), Str(<<"-","I","i">>), Str(<<"-","D","F">>), Str(<<"-","s","t","d","=","c","9","9">>), Str(<<"-","W">>), Str(<<"-","I","i">>)>>)],
       [directory |-> Str(<<"/","w">>), file |-> Str(<<"/","w","/","a">>),
        arguments |-> Arr(<<Str(<<"s">>), Str(<<"/","b","/","C","L">>), Str(<<"/","I","/","j">>), Str(<<"-","I","i">>), Str(<<"/","O">>), Str(<<"/","s","t","d",":","c","1","1">>)>>)],
       [directory |-> Str(<<"/","w">>), file |-> Str(<<"/","w">>),
        arguments |-> Arr(<<Str(<<"s">>), Str(<<"c","l","a","n","g">>), Str(<<"-","I","/","j">>), Str(<<"-","g">>)>>)],
       [directory |-> Num, file |-> Str(<<"/","w","/","b">>),
        arguments |-> Arr(<<Str(<<"s">>), Str(<<"g","c","c">>), Str(<<"-","I","k">>)>>)],
       [directory |-> Str(<<"/","w">>), file |-> Str(<<"c">>),
        arguments |-> Null] >>

\* a record with text fields: directory /p, file /p/a.cpp and the given arguments
TextCommand(args) ==
    [ directory |-> Str(<<"/","p">>),
      file      |-> Str(<<"/","p","/","a",".","c","p","p">>),
      arguments |-> Arr([i \in 1..Len(args) |-> Str(args[i])]) ]

\* the standard tokens the classifier is tried on: the twenty of the closed set
StandardTokens ==
    << <<"c","8","9">>,
       <<"c","9","9">>,
       <<"c","1","1">>,
       <<"c","1","7">>,
       <<"c","+","+","9","8">>,
       <<"c","+","+","0","3">>,
       <<"c","+","+","1","1">>,
       <<"c","+","+","1","4">>,
       <<"c","+","+","1","7">>,
       <<"c","+","+","2","0">>,
       <<"g","n","u","8","9">>,
       <<"g","n","u","9","9">>,
       <<"g","n","u","1","1">>,
       <<"g","n","u","1","7">>,
       <<"g","n","u","+","+","9","8">>,
       <<"g","n","u","+","+","0","3">>,
       <<"g","n","u","+","+","1","1">>,
       <<"g","n","u","+","+","1","4">>,
       <<"g","n","u","+","+","1","7">>,
       <<"g","n","u","+","+","2","0">> >>

\* The records the classifier and the resolver are tried on, one per database.
ScenarioCommands ==
    <<
       \* 1: the Unix scenario of the specification
       TextCommand(<<<<"s","h">>,
                 <<"/","u","s","r","/","b","i","n","/","g","+","+">>,
                 <<"-","I",".",".","/","i","n","c">>,
                 <<"-","D","F","O","O">>,
                 <<"-","s","t","d","=","c","+","+","1","7">>,
                 <<"-","W","a","l","l">>>>),
       \* 2: the MSVC scenario of the specification
       TextCommand(<<<<"s","h">>,
                 <<"C",":","\\","V","C","\\","c","l",".","e","x","e">>,
                 <<"/","I",".",".","\\","i","n","c">>,
                 <<"/","D","B","A","R">>,
                 <<"/","s","t","d",":","c","+","+","1","4">>,
                 <<"/","W","4">>>>),
       \* 3: cl with options of both prefixes
       TextCommand(<<<<"s","h">>,
                 <<"/","v","c","/","C","L">>,
                 <<"/","I","i","n","c">>,
                 <<"-","I","x","x">>,
                 <<"/","D","B","A","R">>,
                 <<"-","D","N","O">>,
                 <<"/","s","t","d",":","c","+","+","1","4">>,
                 <<"-","s","t","d","=","c","9","9">>,
                 <<"/","W","4">>,
                 <<"-","W","a","l","l">>>>),
       \* 4: clang with options of both prefixes
       TextCommand(<<<<"s","h">>,
                 <<"/","u","s","r","/","b","i","n","/","c","l","a","n","g">>,
                 <<"/","I","i","n","c">>,
                 <<"-","I","x","x">>,
                 <<"/","D","B","A","R">>,
                 <<"-","D","Y","E","S">>,
                 <<"/","s","t","d",":","c","+","+","1","4">>,
                 <<"/","W","4">>,
                 <<"-","g">>>>),
       \* 5: gcc with options next to the excluded prefixes
       TextCommand(<<<<"s","h">>,
                 <<"g","c","c">>,
                 <<"-","s","t","d","l","i","b","=","l","i","b","c","+","+">>,
                 <<"-","o","p","e","n","m","p">>,
                 <<"-","o">>,
                 <<"o","u","t",".","o">>,
                 <<"-","o","o","u","t">>,
                 <<"-","O","2">>,
                 <<"-","i","s","y","s","t","e","m">>,
                 <<"/","s">>,
                 <<"-","W","a","l","l">>,
                 <<"-","I","a">>,
                 <<"-","D","B">>,
                 <<"-","s","t","d","=","c","1","1">>,
                 <<"a",".","c","p","p">>>>),
       \* 6: gcc with repeated, absolute, empty and parent include paths
       TextCommand(<<<<"s","h">>,
                 <<"g","c","c">>,
                 <<"-","I","a">>,
                 <<"-","I","/","j","/",".",".","/","k">>,
                 <<"-","I","a">>,
                 <<"-","I">>,
                 <<"-","I",".",".","/","u","p">>>>),
       \* 7: gcc with valued, repeated and empty defines
       TextCommand(<<<<"s","h">>,
                 <<"g","c","c">>,
                 <<"-","D","N","A","M","E","=","V","A","L","U","E">>,
                 <<"-","D","X">>,
                 <<"-","D","N","A","M","E","=","V","A","L","U","E">>,
                 <<"-","D">>>>),
       \* 8: a compiler named msvc
       TextCommand(<<<<"s","h">>,
                 <<"m","s","v","c">>>>),
       \* 9: a compiler named MSVC in a directory
       TextCommand(<<<<"s","h">>,
                 <<"/","x","/","M","S","V","C">>>>),
       \* 10: g++
       TextCommand(<<<<"s","h">>,
                 <<"g","+","+">>>>),
       \* 11: clang++
       TextCommand(<<<<"s","h">>,
                 <<"/","u","s","r","/","b","i","n","/","c","l","a","n","g","+","+">>>>),
       \* 12: cc
       TextCommand(<<<<"s","h">>,
                 <<"c","c">>>>),
       \* 13: gcc.exe
       TextCommand(<<<<"s","h">>,
                 <<"g","c","c",".","e","x","e">>>>),
       \* 14: cl with a standard outside the closed set
       TextCommand(<<<<"s","h">>,
                 <<"c","l">>,
                 <<"/","s","t","d",":","c","+","+","l","a","t","e","s","t">>>>),
       \* 15: gcc with a standard outside the closed set
       TextCommand(<<<<"s","h">>,
                 <<"g","c","c">>,
                 <<"-","s","t","d","=","c","+","+","2","3">>>>),
       \* 16: gcc with two standard arguments
       TextCommand(<<<<"s","h">>,
                 <<"g","c","c">>,
                 <<"-","s","t","d","=","c","+","+","1","7">>,
                 <<"-","s","t","d","=","c","9","9">>>>),
       \* 17: gcc with -stdlib before two standard arguments
       TextCommand(<<<<"s","h">>,
                 <<"g","c","c">>,
                 <<"-","s","t","d","l","i","b","=","l","i","b","c","+","+">>,
                 <<"-","s","t","d","=","c","+","+","1","7">>,
                 <<"-","s","t","d","=","g","n","u","1","1">>>>),
       \* 18: gcc whose first standard is outside the closed set
       TextCommand(<<<<"s","h">>,
                 <<"g","c","c">>,
                 <<"-","s","t","d","=","c","+","+","2","3">>,
                 <<"-","s","t","d","=","c","9","9">>>>),
       \* 19: cl with two /std: arguments and a -std= argument
       TextCommand(<<<<"s","h">>,
                 <<"c","l">>,
                 <<"-","s","t","d","=","c","9","9">>,
                 <<"/","s","t","d",":","c","1","1">>,
                 <<"/","s","t","d",":","c","+","+","1","4">>>>)
    >>

\* gcc with -std=<token> for every token of StandardTokens
StandardCommands ==
    [ k \in 1..Len(StandardTokens) |->
        TextCommand(<< <<"s","h">>, <<"g","c","c">>,
                       <<"-","s","t","d","=">> \o StandardTokens[k] >>) ]

ClassifierPool == ScenarioCommands \o StandardCommands

\* every record a database can hold: CommandPool first, then ClassifierPool
AllCommands == CommandPool \o ClassifierPool

\* the positions of the ClassifierPool records in AllCommands
ClassifierRecords == (Len(CommandPool) + 1)..Len(AllCommands)

\* the architecture labels the resolver is tried on ("" stands for a missing one)
ClassifierArchitectures ==
    { <<"x","8","6">>, <<"x","6","4">>, <<"x","8","6","_","6","4">>, <<"i","3","8","6">>, <<"a","r","m","6","4">>, <<"a","r","m">>, <<"X","8","6">>, <<>> }

\* sequences over S of length at most n
SeqsUpTo(S, n) == UNION { [1..k -> S] : k \in 0..n }

\* a database names its records by their position in CommandPool
Databases == SeqsUpTo(1..Len(CommandPool), MaxEntries)

Architectures == { <<"x","8","6">>, <<"x","6","4">> }
Platforms == { <<"l","i","n","u","x">>, <<"w","i","n","d","o","w","s">> }

AllArchitectures == Architectures \cup ClassifierArchitectures

\* values of vscode.workspace.workspaceFolders: no folder listed twice
FolderLists ==
    { fl \in SeqsUpTo(Folders, MaxFolders) :
        \A i, j \in 1..Len(fl) : i # j => fl[i] # fl[j] }

\* the files and the folders the host asks about
QueryFiles == { <<"/","w","/","a">>, <<"/","w">>, <<"/","x">> }
QueryFolders == { <<"/","w">>, <<"/","w","/","f">>, <<"/","x">> }

UriLists == SeqsUpTo(QueryFiles, MaxUris)

\* ------------------------------------------------------------------ builder

\* the SourceFileConfigurationItem built from one validated command
SourceConfig(cmd, platform, architecture) ==
    LET dir  == cmd.directory.s
        file == cmd.file.s
        args == ArgStrings(cmd.arguments)
    IN  [ uri              |-> UriFileFsPath(IF IsAbsolute(file) THEN file
                                             ELSE PathJoin(dir, file)),
          includePath      |-> findIncludePaths(dir, args),
          defines          |-> findDefines(args),
          compilerPath     |-> findCompilerPath(args),
          compilerArgs     |-> findCompilerArgs(args),
          standard         |-> findStandard(args),
          intelliSenseMode |-> findIntelliSenseMode(args, platform, architecture) ]

\* SourceConfig of every pool record the classifier can read, computed once
ReadableCommands ==
    { i \in 1..Len(AllCommands) :
        IsValidCommand(AllCommands[i]) /\ ArgumentsReadable(AllCommands[i].arguments) }

ConfigTable ==
    [ i \in ReadableCommands |->
        [ p \in Platforms |->
            [ a \in AllArchitectures |-> SourceConfig(AllCommands[i], p, a) ] ] ]

\* mutant of IsAttributed: the containment test, the folder is an ancestor of
\* the file
IsAttributedByContainment(fsPath, folder) ==
    LET relativePath == PathRelative(folder, fsPath)
    IN  Len(relativePath) > 0 /\ ~StartsWith(relativePath, DotDot)

\* the attribution test of the workspace-folder loop
IsAttributed(fsPath, folder) ==
    LET relativePath == PathRelative(fsPath, folder)
    IN  StartsWith(relativePath, DotDot) \/ StartsWith(relativePath, Dot)

\* IsAttributed of every file of the pool and every folder, computed once
AttributionTable ==
    [ i \in ReadableCommands |->
        [ f \in Folders |->
            IsAttributed(ConfigTable[i][CHOOSE p \in Platforms : TRUE]
                                       [CHOOSE a \in Architectures : TRUE].uri, f) ] ]

\* mutant of FoldIntoFolder: the compiler path and the standard of a record are
\* written to the folder also when the attribution test fails
FoldCompilerOfEveryRecord(st, folder, i, cfg) ==
    IF ~AttributionTable[i][folder]
    THEN [st EXCEPT !.wc = MapSet(st.wc, folder, cfg.compilerPath),
                    !.ws = MapSet(st.ws, folder, cfg.standard)]
    ELSE IF folder \notin DOMAIN st.wbp /\ Len(cfg.includePath) > 0
         THEN [st EXCEPT !.threw = TRUE]
    ELSE LET wbp1 == IF folder \in DOMAIN st.wbp
                     THEN MapSet(st.wbp, folder,
                                 pushIfNotExist(st.wbp[folder], cfg.includePath))
                     ELSE st.wbp
         IN  IF folder \notin DOMAIN st.wca /\ Len(cfg.compilerArgs) > 0
             THEN [st EXCEPT !.wbp = wbp1, !.threw = TRUE]
             ELSE [st EXCEPT
                     !.wbp = wbp1,
                     !.wca = IF folder \in DOMAIN st.wca
                             THEN MapSet(st.wca, folder,
                                         pushIfNotExist(st.wca[folder], cfg.compilerArgs))
                             ELSE st.wca,
                     !.wc  = MapSet(st.wc, folder, cfg.compilerPath),
                     !.ws  = MapSet(st.ws, folder, cfg.standard)]

\* One iteration of the workspace-folder loop for one command.  st holds the five
\* maps and threw; pushIfNotExist on a missing array raises a TypeError as soon
\* as it has an element to look up.
FoldIntoFolder(st, folder, i, cfg) ==
    IF ~AttributionTable[i][folder] THEN st
    ELSE IF folder \notin DOMAIN st.wbp /\ Len(cfg.includePath) > 0
         THEN [st EXCEPT !.threw = TRUE]
    ELSE LET wbp1 == IF folder \in DOMAIN st.wbp
                     THEN MapSet(st.wbp, folder,
                                 pushIfNotExist(st.wbp[folder], cfg.includePath))
                     ELSE st.wbp
         IN  IF folder \notin DOMAIN st.wca /\ Len(cfg.compilerArgs) > 0
             THEN [st EXCEPT !.wbp = wbp1, !.threw = TRUE]
             ELSE [st EXCEPT
                     !.wbp = wbp1,
                     !.wca = IF folder \in DOMAIN st.wca
                             THEN MapSet(st.wca, folder,
                                         pushIfNotExist(st.wca[folder], cfg.compilerArgs))
                             ELSE st.wca,
                     !.wc  = MapSet(st.wc, folder, cfg.compilerPath),
                     !.ws  = MapSet(st.ws, folder, cfg.standard)]

RECURSIVE FoldIntoFolders(_, _, _, _, _)
\* vscode.workspace.workspaceFolders.forEach(...) from folder j on
FoldIntoFolders(st, folders, j, i, cfg) ==
    IF st.threw \/ j > Len(folders) THEN st
    ELSE FoldIntoFolders(FoldIntoFolder(st, folders[j], i, cfg), folders, j + 1, i, cfg)

\* mutant of StoreSourceConfig: a second command for a path is merged into the
\* record the first one stored
StoreSourceConfigMerged(sfc, cfg) ==
    IF cfg.uri \in DOMAIN sfc
    THEN MapSet(sfc, cfg.uri,
                [cfg EXCEPT !.includePath = sfc[cfg.uri].includePath \o @,
                            !.defines = sfc[cfg.uri].defines \o @,
                            !.compilerArgs = sfc[cfg.uri].compilerArgs \o @])
    ELSE MapSet(sfc, cfg.uri, cfg)

\* this._sourceFileConfigurations.set(uri.fsPath, srcConfig)
StoreSourceConfig(sfc, cfg) == MapSet(sfc, cfg.uri, cfg)

\* the body of compileCommands.forEach for the command AllCommands[i]
ProcessCommand(st, i, folders, platform, architecture) ==
    IF ~IsValidCommand(AllCommands[i]) THEN st  \* console.error, next command
    ELSE IF ~ArgumentsReadable(AllCommands[i].arguments)
         THEN [st EXCEPT !.threw = TRUE]
    ELSE LET cfg == ConfigTable[i][platform][architecture]
             st1 == [st EXCEPT !.sfc = StoreSourceConfig(st.sfc, cfg)]
         IN  FoldIntoFolders(st1, folders, 1, i, cfg)

RECURSIVE ProcessCommands(_, _, _, _, _, _)
\* compileCommands.forEach(...) from command i on; an exception ends the loop
ProcessCommands(st, cmds, i, folders, platform, architecture) ==
    IF st.threw \/ i > Len(cmds) THEN st
    ELSE ProcessCommands(ProcessCommand(st, cmds[i], folders, platform, architecture),
                         cmds, i + 1, folders, platform, architecture)

\* mutant of ClearSourceFileConfigurations: the per-file map is not cleared
KeepSourceFileConfigurations(m) == m

\* this._sourceFileConfigurations.clear()
ClearSourceFileConfigurations(m) == EmptyMap

\* mutant of ClearAggregate: the map is emptied with clear(), its keys are lost
ClearAggregateKeys(m) == EmptyMap

\* this._workspaceBrowsePaths.forEach((paths) => { paths = [] }) and its three
\* siblings: the callback assigns to its own parameter, the map keeps its values
ClearAggregate(m) == m

\* updateCompileCommands(compileCommands, platform, architecture) on the index st
UpdateResult(st, cmds, folders, platform, architecture) ==
    ProcessCommands([ sfc   |-> ClearSourceFileConfigurations(st.sfc),
                      wbp   |-> ClearAggregate(st.wbp),
                      wca   |-> ClearAggregate(st.wca),
                      wc    |-> ClearAggregate(st.wc),
                      ws    |-> ClearAggregate(st.ws),
                      threw |-> FALSE ],
                    cmds, 1, folders, platform, architecture)

\* ------------------------------------------------------------------ state

VARIABLES
    sourceFileConfigurations,  \* _sourceFileConfigurations: fsPath -> item
    workspaceBrowsePaths,      \* _workspaceBrowsePaths: folder -> include directories
    workspaceCompilerArgs,     \* _workspaceCompilerArgs: folder -> arguments
    workspaceCompiler,         \* _workspaceCompiler: folder -> compiler path
    workspaceStandard,         \* _workspaceStandard: folder -> standard
    workspaceFolders,          \* vscode.workspace.workspaceFolders (fsPaths)
    ret,                       \* the call the host is awaiting and its outcome
    pendingReads,              \* fs.readFile calls of XMake.updateCompileCommands
                               \* whose callback has not run yet
    frames,                    \* the calls of updateCompileCommands that have
                               \* started and not ended, with the position of
                               \* the next command of their forEach
    registered,                \* the provider is registered with the cpptools api
    jobs,                      \* continuations of deregister/register... awaiting
                               \* getCppToolsApi, in the order they were started
    enabled,                   \* _enabled
    optionChanged,             \* _optionChanged
    explorerOptionsChanged,    \* _xmakeExplorer.getOptionsChanged()
    option,                    \* _option: plat, arch, mode, project
    configured,                \* the options of the last "config" command the
                               \* terminal executed
    calls,                     \* the async calls of the XMake class suspended
                               \* at an await
    created                    \* how many task providers, watcher sets and
                               \* configuration providers startPlugin has made

index == <<sourceFileConfigurations, workspaceBrowsePaths, workspaceCompilerArgs,
           workspaceCompiler, workspaceStandard>>

\* the state of the database refresh of the XMake class
refresh == <<pendingReads, frames, registered, jobs>>

\* the state of the XMake class that its commands work on
plugin == <<enabled, optionChanged, explorerOptionsChanged, option, configured,
            calls, created>>

vars == <<sourceFileConfigurations, workspaceBrowsePaths, workspaceCompilerArgs,
          workspaceCompiler, workspaceStandard, workspaceFolders, ret,
          pendingReads, frames, registered, jobs, enabled, optionChanged,
          explorerOptionsChanged, option, configured, calls, created>>

\* the five maps as the record the builder works on
IndexState ==
    [ sfc |-> sourceFileConfigurations, wbp |-> workspaceBrowsePaths,
      wca |-> workspaceCompilerArgs, wc |-> workspaceCompiler,
      ws |-> workspaceStandard ]

\* no call is outstanding: the host has taken the last outcome
Idle == [op |-> "none", status |-> "none"]

\* the constructor: one empty array per folder in the two list-valued maps
ConstructorMap(folders) == [f \in { folders[i] : i \in 1..Len(folders) } |-> <<>>]

\* os.platform() and os.arch() of the machine, in the names loadCache gives them
HostPlatform == <<"l","i","n","u","x">>
HostArch == <<"x","8","6","_","6","4">>
Windows == <<"w","i","n","d","o","w","s">>
X86 == <<"x","8","6">>
Debug == <<"d","e","b","u","g">>
Release == <<"r","e","l","e","a","s","e">>

\* the configuration cache of a project as config.lua prints it; an empty text
\* stands for a key the cache does not hold
NoCache == [plat |-> <<>>, arch |-> <<>>, mode |-> <<>>]
CacheContents == { NoCache, [plat |-> Windows, arch |-> X86, mode |-> Release] }

\* loadCache: platform, architecture and mode from the cache, else the defaults
loadCache(opt, cache) ==
    LET plat == IF cache.plat # <<>> THEN cache.plat ELSE HostPlatform
        arch == IF cache.arch # <<>> THEN cache.arch
                ELSE IF plat = Windows THEN X86 ELSE HostArch
        mode == IF cache.mode # <<>> THEN cache.mode ELSE Debug
    IN  [opt EXCEPT !.plat = plat, !.arch = arch, !.mode = mode]

\* the Option object as its constructor leaves it
NewOption == [plat |-> <<>>, arch |-> <<>>, mode |-> <<>>, project |-> <<>>]

\* utils.getProjectRoot(): the first workspace folder
ProjectRoot == IF Len(workspaceFolders) > 0 THEN workspaceFolders[1] ELSE <<"/">>

\* path.basename of the project root
ProjectName(root) == IF root = <<"/">> THEN <<>> ELSE Basename(root)

\* no "config" command has been executed
NoConfig == [plat |-> <<>>, arch |-> <<>>, mode |-> <<>>, project |-> <<>>]

NothingCreated == [taskProviders |-> 0, watchers |-> 0, providers |-> 0]

\* the XMake object once startPlugin has run to its end
PluginStarted ==
    /\ enabled = TRUE
    /\ optionChanged = TRUE
    /\ explorerOptionsChanged = FALSE
    /\ option = [loadCache(NewOption, NoCache)
                   EXCEPT !.project = ProjectName(ProjectRoot)]
    /\ configured = NoConfig
    /\ calls = <<>>
    /\ created = [taskProviders |-> 1, watchers |-> 1, providers |-> 1]

Init ==
    /\ workspaceFolders \in FolderLists
    /\ sourceFileConfigurations = EmptyMap
    /\ workspaceBrowsePaths = ConstructorMap(workspaceFolders)
    /\ workspaceCompilerArgs = ConstructorMap(workspaceFolders)
    /\ workspaceCompiler = EmptyMap
    /\ workspaceStandard = EmptyMap
    /\ ret = [op |-> "constructor", status |-> "returned"]
    /\ pendingReads = 0
    /\ frames = <<>>
    /\ registered = FALSE
    /\ jobs = <<>>
    /\ PluginStarted

\* ------------------------------------------------------------------ operations

updateCompileCommands(db, platform, architecture) ==
    /\ ret = Idle
    /\ \E r \in { UpdateResult(IndexState, db, workspaceFolders,
                               platform, architecture) } :
        /\ sourceFileConfigurations' = r.sfc
        /\ workspaceBrowsePaths' = r.wbp
        /\ workspaceCompilerArgs' = r.wca
        /\ workspaceCompiler' = r.wc
        /\ workspaceStandard' = r.ws
        /\ ret' = [op |-> "updateCompileCommands", db |-> db,
                   platform |-> platform, architecture |-> architecture,
                   status |-> IF r.threw THEN "threw" ELSE "returned"]
    /\ UNCHANGED <<workspaceFolders, refresh, plugin>>

\* mutant of HasConfiguration: a path that is a prefix of a key counts as known
HasConfigurationByPrefix(fsPath) ==
    \E k \in DOMAIN sourceFileConfigurations : StartsWith(k, fsPath)

\* this._sourceFileConfigurations.has(uri.fsPath)
HasConfiguration(fsPath) == fsPath \in DOMAIN sourceFileConfigurations

canProvideConfiguration(fsPath) ==
    /\ ret = Idle
    /\ ret' = [op |-> "canProvideConfiguration", fsPath |-> fsPath,
               status |-> "resolved", value |-> HasConfiguration(fsPath)]
    /\ UNCHANGED <<index, workspaceFolders, refresh, plugin>>

RECURSIVE ProvideItems(_, _, _, _)
\* uris.forEach(...) of provideConfigurations from uri i on.  items is declared
\* without an initialiser, so it is undefined (def = FALSE) and push raises.
ProvideItems(sfc, uris, i, acc) ==
    IF acc.threw \/ i > Len(uris) THEN acc
    ELSE IF uris[i] \in DOMAIN sfc
         THEN IF acc.def
              THEN ProvideItems(sfc, uris, i + 1,
                                [acc EXCEPT !.v = Append(acc.v, sfc[uris[i]])])
              ELSE [acc EXCEPT !.threw = TRUE]
    ELSE ProvideItems(sfc, uris, i + 1, acc)

\* let items : SourceFileConfigurationItem[];
ItemsDeclaration == [def |-> FALSE, v |-> <<>>, threw |-> FALSE]

provideConfigurations(uris) ==
    LET r == ProvideItems(sourceFileConfigurations, uris, 1, ItemsDeclaration)
    IN  /\ ret = Idle
        /\ ret' = [op |-> "provideConfigurations", uris |-> uris,
                   status |-> IF r.threw THEN "threw" ELSE "resolved",
                   value |-> [def |-> r.def, v |-> r.v]]
        /\ UNCHANGED <<index, workspaceFolders, refresh, plugin>>

\* mutant of HasBrowseConfiguration: true only once an aggregate has content
HasNonEmptyBrowseConfiguration ==
    \E f \in DOMAIN workspaceBrowsePaths : Len(workspaceBrowsePaths[f]) > 0

\* this._workspaceBrowsePaths.size > 0
HasBrowseConfiguration == Cardinality(DOMAIN workspaceBrowsePaths) > 0

canProvideBrowseConfiguration ==
    /\ ret = Idle
    /\ ret' = [op |-> "canProvideBrowseConfiguration", status |-> "resolved",
               value |-> HasBrowseConfiguration]
    /\ UNCHANGED <<index, workspaceFolders, refresh, plugin>>

\* the object both browse queries resolve to for the key `folder`
BrowseConfiguration(folder) ==
    [ isNull       |-> FALSE,
      browsePath   |-> MapGet(workspaceBrowsePaths, folder),
      compilerArgs |-> MapGet(workspaceCompilerArgs, folder),
      compilerPath |-> MapGet(workspaceCompiler, folder),
      standard     |-> MapGet(workspaceStandard, folder) ]

\* workspaceFolders[0].uri.fsPath raises a TypeError on an empty list
provideBrowseConfiguration ==
    /\ ret = Idle
    /\ ret' = IF Len(workspaceFolders) = 0
              THEN [op |-> "provideBrowseConfiguration", status |-> "threw"]
              ELSE [op |-> "provideBrowseConfiguration", status |-> "resolved",
                    value |-> BrowseConfiguration(workspaceFolders[1])]
    /\ UNCHANGED <<index, workspaceFolders, refresh, plugin>>

canProvideBrowseConfigurationsPerFolder ==
    /\ ret = Idle
    /\ ret' = [op |-> "canProvideBrowseConfigurationsPerFolder",
               status |-> "resolved", value |-> HasBrowseConfiguration]
    /\ UNCHANGED <<index, workspaceFolders, refresh, plugin>>

\* mutant of FolderBrowseValue: a tracked folder gets the primary folder's aggregate
FolderBrowseValueOfPrimary(fsPath) ==
    IF fsPath \in DOMAIN workspaceBrowsePaths
    THEN BrowseConfiguration(workspaceFolders[1])
    ELSE [isNull |-> TRUE]

\* the value provideFolderBrowseConfiguration resolves to
FolderBrowseValue(fsPath) ==
    IF fsPath \in DOMAIN workspaceBrowsePaths
    THEN BrowseConfiguration(fsPath)
    ELSE [isNull |-> TRUE]

\* mutant of provideFolderBrowseConfiguration: a folder that has no aggregate
\* gets an empty one
provideFolderBrowseConfigurationCreating(fsPath) ==
    /\ ret = Idle
    /\ ret' = [op |-> "provideFolderBrowseConfiguration", fsPath |-> fsPath,
               status |-> "resolved", value |-> FolderBrowseValue(fsPath)]
    /\ workspaceBrowsePaths' =
          IF fsPath \in DOMAIN workspaceBrowsePaths THEN workspaceBrowsePaths
          ELSE MapSet(workspaceBrowsePaths, fsPath, <<>>)
    /\ workspaceCompilerArgs' =
          IF fsPath \in DOMAIN workspaceCompilerArgs THEN workspaceCompilerArgs
          ELSE MapSet(workspaceCompilerArgs, fsPath, <<>>)
    /\ UNCHANGED <<sourceFileConfigurations, workspaceCompiler, workspaceStandard,
                   workspaceFolders, refresh, plugin>>

provideFolderBrowseConfiguration(fsPath) ==
    /\ ret = Idle
    /\ ret' = [op |-> "provideFolderBrowseConfiguration", fsPath |-> fsPath,
               status |-> "resolved", value |-> FolderBrowseValue(fsPath)]
    /\ UNCHANGED <<index, workspaceFolders, refresh, plugin>>

\* The host adds or removes workspace folders behind the first one (a change of
\* the first folder restarts the extension host and with it the provider).
WorkspaceFoldersChanged(fl) ==
    /\ Len(workspaceFolders) > 0
    /\ Len(fl) > 0
    /\ fl[1] = workspaceFolders[1]
    /\ fl # workspaceFolders
    /\ ret = Idle
    /\ workspaceFolders' = fl
    /\ UNCHANGED <<index, ret, refresh, plugin>>

\* the host takes the outcome of the call it was awaiting, once the call ended
HostTakesResult ==
    /\ ret # Idle
    /\ ret.status # "running"
    /\ ret' = Idle
    /\ UNCHANGED <<index, workspaceFolders, refresh, plugin>>

Next ==
    \/ \E db \in Databases, p \in Platforms, a \in Architectures :
          updateCompileCommands(db, p, a)
    \/ \E fsPath \in QueryFiles : canProvideConfiguration(fsPath)
    \/ \E uris \in UriLists : provideConfigurations(uris)
    \/ canProvideBrowseConfiguration
    \/ provideBrowseConfiguration
    \/ canProvideBrowseConfigurationsPerFolder
    \/ \E fsPath \in QueryFolders : provideFolderBrowseConfiguration(fsPath)
    \/ \E fl \in FolderLists : WorkspaceFoldersChanged(fl)
    \/ HostTakesResult

Spec == Init /\ [][Next]_vars

\* The classifier and resolver on their own: a provider without workspace folders
\* is rebuilt from one-record databases over ClassifierPool.
ClassifierInit == Init /\ workspaceFolders = <<>>

ClassifierNext ==
    \/ \E i \in ClassifierRecords, p \in Platforms, a \in ClassifierArchitectures :
          updateCompileCommands(<<i>>, p, a)
    \/ HostTakesResult

SpecClassifier == ClassifierInit /\ [][ClassifierNext]_vars

\* The database refresh of the XMake class, with the rebuild taken one command
\* at a time.  XMake.updateCompileCommands starts an fs.readFile; its callback
\* calls the provider's updateCompileCommands, which clears the per-file map and
\* then runs compileCommands.forEach to its end without awaiting anything.

\* the records and the databases the file holds when it is read
RefreshRecords == {1, 3, 5}
RefreshDatabases == SeqsUpTo(RefreshRecords, MaxEntries)

\* mutant of CallRunning: the rebuild gives the thread back between its steps
CallSuspended(db, platform, architecture) == Idle

\* the running call of updateCompileCommands: it holds the thread until it ends
CallRunning(db, platform, architecture) ==
    [op |-> "updateCompileCommands", db |-> db, platform |-> platform,
     architecture |-> architecture, status |-> "running"]

\* mutant of CallStackEmpty: a callback is run while another call is running
CallStackIgnored == TRUE

\* a callback is taken from the event loop only when no call is running
CallStackEmpty == ret = Idle

\* XMake.updateCompileCommands up to its await: the file exists, readFile starts
XMakeUpdateCompileCommands ==
    /\ CallStackEmpty
    /\ pendingReads < MaxPendingReads
    /\ pendingReads' = pendingReads + 1
    /\ UNCHANGED <<index, workspaceFolders, ret, frames, registered, jobs, plugin>>

\* the readFile callback: JSON.parse gives db, updateCompileCommands is called and
\* does its clear step
ReadFileCallback(db, platform, architecture) ==
    /\ CallStackEmpty
    /\ pendingReads > 0
    /\ Len(jobs) + 2 <= MaxJobs
    /\ pendingReads' = pendingReads - 1
    /\ sourceFileConfigurations' = ClearSourceFileConfigurations(sourceFileConfigurations)
    /\ workspaceBrowsePaths' = ClearAggregate(workspaceBrowsePaths)
    /\ workspaceCompilerArgs' = ClearAggregate(workspaceCompilerArgs)
    /\ workspaceCompiler' = ClearAggregate(workspaceCompiler)
    /\ workspaceStandard' = ClearAggregate(workspaceStandard)
    /\ frames' = Append(frames, [db |-> db, platform |-> platform,
                                 architecture |-> architecture, next |-> 1])
    /\ ret' = CallRunning(db, platform, architecture)
    /\ UNCHANGED <<workspaceFolders, registered, jobs, plugin>>

\* frames without its element k
WithoutFrame(k) == SubSeq(frames, 1, k - 1) \o SubSeq(frames, k + 1, Len(frames))

\* one iteration of compileCommands.forEach of the running call; an exception
\* ends the call and the callback that made it, before the callback's calls of
\* deregister... and register...
ProcessNextCommand(k) ==
    /\ k \in 1..Len(frames)
    /\ ret = CallRunning(frames[k].db, frames[k].platform, frames[k].architecture)
    /\ frames[k].next <= Len(frames[k].db)
    /\ \E r \in { ProcessCommand([ sfc |-> sourceFileConfigurations,
                                    wbp |-> workspaceBrowsePaths,
                                    wca |-> workspaceCompilerArgs,
                                    wc |-> workspaceCompiler,
                                    ws |-> workspaceStandard,
                                    threw |-> FALSE ],
                                  frames[k].db[frames[k].next], workspaceFolders,
                                  frames[k].platform, frames[k].architecture) } :
        /\ sourceFileConfigurations' = r.sfc
        /\ workspaceBrowsePaths' = r.wbp
        /\ workspaceCompilerArgs' = r.wca
        /\ workspaceCompiler' = r.wc
        /\ workspaceStandard' = r.ws
        /\ IF r.threw
           THEN /\ frames' = WithoutFrame(k)
                /\ ret' = [op |-> "updateCompileCommands", db |-> frames[k].db,
                           platform |-> frames[k].platform,
                           architecture |-> frames[k].architecture,
                           status |-> "threw"]
           ELSE /\ frames' = [frames EXCEPT ![k].next = @ + 1]
                /\ UNCHANGED ret
    /\ UNCHANGED <<workspaceFolders, pendingReads, registered, jobs, plugin>>

\* the callback's two calls after the rebuild: deregister... and register...
\* each run to their await of getCppToolsApi
StartedJobs == <<"dispose", "register">>

\* forEach is past the last command: the running call returns to the callback,
\* which starts the deregistration and the registration without awaiting them
UpdateCompileCommandsReturns(k) ==
    /\ k \in 1..Len(frames)
    /\ ret = CallRunning(frames[k].db, frames[k].platform, frames[k].architecture)
    /\ frames[k].next > Len(frames[k].db)
    /\ frames' = WithoutFrame(k)
    /\ ret' = [op |-> "updateCompileCommands", db |-> frames[k].db,
               platform |-> frames[k].platform,
               architecture |-> frames[k].architecture, status |-> "returned"]
    /\ jobs' = jobs \o StartedJobs
    /\ UNCHANGED <<index, workspaceFolders, pendingReads, registered, plugin>>

\* getCppToolsApi resolves for the call that has awaited it longest: api.dispose()
\* of deregisterCppCustomConfigurationProvider, or registerCustomConfigurationProvider
\* and the notification of registerCppCustomConfigurationProvider
RunJob ==
    /\ CallStackEmpty
    /\ jobs # <<>>
    /\ registered' = (Head(jobs) = "register")
    /\ jobs' = Tail(jobs)
    /\ UNCHANGED <<index, workspaceFolders, ret, pendingReads, frames, plugin>>

RefreshNext ==
    \/ XMakeUpdateCompileCommands
    \/ \E db \in RefreshDatabases, p \in Platforms, a \in Architectures :
          ReadFileCallback(db, p, a)
    \/ \E k \in 1..Len(frames) : ProcessNextCommand(k)
    \/ \E k \in 1..Len(frames) : UpdateCompileCommandsReturns(k)
    \/ RunJob
    \/ \E fsPath \in QueryFiles : canProvideConfiguration(fsPath)
    \/ HostTakesResult

SpecRefresh == Init /\ [][RefreshNext]_vars

\* The commands of the XMake class.  An async method runs to its first await in
\* one step; calls holds the calls suspended at an await, each resumed by a step
\* of its own.

\* before start(): no provider exists and nothing has been created
PluginInit ==
    /\ workspaceFolders \in { fl \in FolderLists : Len(fl) > 0 }
    /\ sourceFileConfigurations = EmptyMap
    /\ workspaceBrowsePaths = EmptyMap
    /\ workspaceCompilerArgs = EmptyMap
    /\ workspaceCompiler = EmptyMap
    /\ workspaceStandard = EmptyMap
    /\ ret = Idle
    /\ pendingReads = 0
    /\ frames = <<>>
    /\ registered = FALSE
    /\ jobs = <<>>
    /\ enabled = FALSE
    /\ optionChanged = TRUE
    /\ explorerOptionsChanged = FALSE
    /\ option = NewOption
    /\ configured = NoConfig
    /\ calls = <<>>
    /\ created = NothingCreated

\* the suspended calls of startPlugin, and those of the commands
StartCalls == { k \in 1..Len(calls) : calls[k].op = "startPlugin" }
CommandCalls == { k \in 1..Len(calls) : calls[k].op # "startPlugin" }

\* calls without its element k
WithoutCall(k) == SubSeq(calls, 1, k - 1) \o SubSeq(calls, k + 1, Len(calls))

\* the test startPlugin makes on entry
StartPluginGuard == enabled

\* startPlugin up to its await of the explorer's init, as start() and
\* createProject() call it: the guard, then the task provider
StartPluginBegins ==
    /\ Cardinality(StartCalls) < MaxStarts
    /\ ~StartPluginGuard
    /\ created' = [created EXCEPT !.taskProviders = @ + 1]
    /\ calls' = Append(calls, [op |-> "startPlugin", at |-> "init"])
    /\ UNCHANGED <<index, workspaceFolders, ret, refresh, enabled, optionChanged,
                   explorerOptionsChanged, option, configured>>

\* startPlugin after the await: the option object, loadCache, the watchers, a new
\* configuration provider, the project name, and at last _enabled
StartPluginResumes(k, cache) ==
    /\ k \in 1..Len(calls)
    /\ calls[k].op = "startPlugin"
    /\ option' = [loadCache(NewOption, cache)
                    EXCEPT !.project = ProjectName(ProjectRoot)]
    /\ created' = [created EXCEPT !.watchers = @ + 1, !.providers = @ + 1]
    /\ sourceFileConfigurations' = EmptyMap
    /\ workspaceBrowsePaths' = ConstructorMap(workspaceFolders)
    /\ workspaceCompilerArgs' = ConstructorMap(workspaceFolders)
    /\ workspaceCompiler' = EmptyMap
    /\ workspaceStandard' = EmptyMap
    /\ enabled' = TRUE
    /\ calls' = WithoutCall(k)
    /\ UNCHANGED <<workspaceFolders, ret, refresh, optionChanged,
                   explorerOptionsChanged, configured>>

\* the commands that call onConfigure before their own terminal command
BuildCommands ==
    { "onBuild", "onRebuild", "onClean", "onCleanAll", "onRun", "onPackage",
      "onInstall", "onUninstall" }

\* the test of onConfigure
ConfigureNeeded == optionChanged \/ explorerOptionsChanged

\* onConfigure up to its await, for the call named op: when an option changed,
\* the terminal gets "xmake f -p plat -a arch -m mode" in the project root
ConfigureBegins(op) ==
    /\ ConfigureNeeded
    /\ configured' = option
    /\ calls' = Append(calls, [op |-> op, at |-> "config"])

\* a build, rebuild, clean, run, package, install or uninstall command up to its
\* first await: in onConfigure when that configures, else of its own command
CommandBegins(op) ==
    /\ enabled
    /\ Cardinality(CommandCalls) < MaxCommands
    /\ \/ ConfigureBegins(op)
       \/ /\ ~ConfigureNeeded
          /\ calls' = Append(calls, [op |-> op, at |-> "command"])
          /\ UNCHANGED configured
    /\ UNCHANGED <<index, workspaceFolders, ret, refresh, enabled, optionChanged,
                   explorerOptionsChanged, option, created>>

\* the command xmake.onConfigure: onConfigure called on its own
onConfigure ==
    /\ enabled
    /\ Cardinality(CommandCalls) < MaxCommands
    /\ ConfigureBegins("onConfigure")
    /\ UNCHANGED <<index, workspaceFolders, ret, refresh, enabled, optionChanged,
                   explorerOptionsChanged, option, created>>

\* the terminal has executed "config": onConfigure marks the options unchanged and
\* returns true; a command that called it goes on to its own terminal command
ConfigureEnds(k) ==
    /\ k \in 1..Len(calls)
    /\ calls[k].at = "config"
    /\ optionChanged' = FALSE
    /\ explorerOptionsChanged' = FALSE
    /\ calls' = IF calls[k].op = "onConfigure" THEN WithoutCall(k)
                ELSE [calls EXCEPT ![k].at = "command"]
    /\ UNCHANGED <<index, workspaceFolders, ret, refresh, enabled, option,
                   configured, created>>

\* the terminal has executed the command's own command line
CommandEnds(k) ==
    /\ k \in 1..Len(calls)
    /\ calls[k].at = "command"
    /\ calls' = WithoutCall(k)
    /\ UNCHANGED <<index, workspaceFolders, ret, refresh, enabled, optionChanged,
                   explorerOptionsChanged, option, configured, created>>

\* onCleanConfigure up to its await: the terminal gets "xmake f -c"
onCleanConfigure ==
    /\ enabled
    /\ Cardinality(CommandCalls) < MaxCommands
    /\ calls' = Append(calls, [op |-> "onCleanConfigure", at |-> "clean config"])
    /\ UNCHANGED <<index, workspaceFolders, ret, refresh, enabled, optionChanged,
                   explorerOptionsChanged, option, configured, created>>

\* onCleanConfigure after the await
CleanConfigureEnds(k) ==
    /\ k \in 1..Len(calls)
    /\ calls[k].at = "clean config"
    /\ optionChanged' = FALSE
    /\ calls' = WithoutCall(k)
    /\ UNCHANGED <<index, workspaceFolders, ret, refresh, enabled,
                   explorerOptionsChanged, option, configured, created>>

\* the architecture setTargetPlat gives a platform
ArchOfPlat(plat) == IF plat = HostPlatform THEN HostArch ELSE X86

\* setTargetPlat once the pick is made: a platform other than the current one
setTargetPlat(label) ==
    /\ enabled
    /\ label # option.plat
    /\ option' = [option EXCEPT !.plat = label, !.arch = ArchOfPlat(label)]
    /\ optionChanged' = TRUE
    /\ UNCHANGED <<index, workspaceFolders, ret, refresh, enabled,
                   explorerOptionsChanged, configured, calls, created>>

\* the architectures archs.lua lists
ArchLabels == { HostArch, X86 }

\* setTargetArch once the pick is made
setTargetArch(label) ==
    /\ enabled
    /\ label # option.arch
    /\ option' = [option EXCEPT !.arch = label]
    /\ optionChanged' = TRUE
    /\ UNCHANGED <<index, workspaceFolders, ret, refresh, enabled,
                   explorerOptionsChanged, configured, calls, created>>

\* setBuildMode once the pick is made
setBuildMode(label) ==
    /\ enabled
    /\ label # option.mode
    /\ option' = [option EXCEPT !.mode = label]
    /\ optionChanged' = TRUE
    /\ UNCHANGED <<index, workspaceFolders, ret, refresh, enabled,
                   explorerOptionsChanged, configured, calls, created>>

\* setProjectRoot once the pick is made: the project, then loadCache in the new root
setProjectRoot(i, cache) ==
    /\ enabled
    /\ i \in 1..Len(workspaceFolders)
    /\ ProjectName(workspaceFolders[i]) # option.project
    /\ option' = loadCache([option EXCEPT !.project = ProjectName(workspaceFolders[i])],
                           cache)
    /\ optionChanged' = TRUE
    /\ UNCHANGED <<index, workspaceFolders, ret, refresh, enabled,
                   explorerOptionsChanged, configured, calls, created>>

\* the user changes an option in the explorer view
ExplorerOptionsChange ==
    /\ enabled
    /\ ~explorerOptionsChanged
    /\ explorerOptionsChanged' = TRUE
    /\ UNCHANGED <<index, workspaceFolders, ret, refresh, enabled, optionChanged,
                   option, configured, calls, created>>

PluginNext ==
    \/ StartPluginBegins
    \/ \E k \in 1..Len(calls), cache \in CacheContents : StartPluginResumes(k, cache)
    \/ \E op \in BuildCommands : CommandBegins(op)
    \/ onConfigure
    \/ \E k \in 1..Len(calls) : ConfigureEnds(k)
    \/ \E k \in 1..Len(calls) : CommandEnds(k)
    \/ onCleanConfigure
    \/ \E k \in 1..Len(calls) : CleanConfigureEnds(k)
    \/ \E label \in Platforms : setTargetPlat(label)
    \/ \E label \in ArchLabels : setTargetArch(label)
    \/ \E label \in { Debug, Release } : setBuildMode(label)
    \/ \E i \in 1..Len(workspaceFolders), cache \in CacheContents :
          setProjectRoot(i, cache)
    \/ ExplorerOptionsChange

SpecPlugin == PluginInit /\ [][PluginNext]_vars

\* ------------------------------------------------------------------ claims

\* the call just made was a rebuild / a rebuild that ran to its end
LastUpdate == ret.op = "updateCompileCommands"
UpdateCompleted == LastUpdate /\ ret.status = "returned"

\* positions of the database of the last rebuild whose record passes validation
ValidPositions == { i \in 1..Len(ret.db) : IsValidCommand(AllCommands[ret.db[i]]) }

\* the configuration the last rebuild computes for the record at position i
ConfigAt(i) == SourceConfig(AllCommands[ret.db[i]], ret.platform, ret.architecture)

\* the absolute source path of a record: an absolute file as it is, a relative
\* file joined onto the directory
AbsoluteSourcePath(cmd) ==
    IF IsAbsolute(cmd.file.s) THEN cmd.file.s
    ELSE PathJoin(cmd.directory.s, cmd.file.s)

\* C1: after a completed rebuild with database D every folder aggregate (browse
\* include directories, pass-through arguments, compiler path, standard) holds
\* only data contributed by records of D; nothing of an earlier rebuild survives.
C1_AggregatesOnlyFromDatabase ==
    UpdateCompleted =>
        \A f \in DOMAIN workspaceBrowsePaths :
            /\ \A k \in 1..Len(workspaceBrowsePaths[f]) :
                  \E i \in ValidPositions :
                      Contains(ConfigAt(i).includePath, workspaceBrowsePaths[f][k])
            /\ \A k \in 1..Len(workspaceCompilerArgs[f]) :
                  \E i \in ValidPositions :
                      Contains(ConfigAt(i).compilerArgs, workspaceCompilerArgs[f][k])
            /\ f \in DOMAIN workspaceCompiler =>
                  \E i \in ValidPositions :
                      workspaceCompiler[f] = ConfigAt(i).compilerPath
            /\ f \in DOMAIN workspaceStandard =>
                  \E i \in ValidPositions :
                      workspaceStandard[f] = ConfigAt(i).standard

\* the records the known uris of a query list have in the per-file map, in order
RECURSIVE KnownRecords(_)
KnownRecords(uris) ==
    IF Len(uris) = 0 THEN <<>>
    ELSE IF uris[1] \in DOMAIN sourceFileConfigurations
         THEN <<sourceFileConfigurations[uris[1]]>> \o KnownRecords(Tail(uris))
         ELSE KnownRecords(Tail(uris))

\* C2: provideConfigurations(paths) resolves without an error to the list of the
\* stored records of the known input paths, in input order; the list is empty
\* when no input path is known.
C2_ProvideConfigurationsListsKnown ==
    ret.op = "provideConfigurations" =>
        /\ ret.status = "resolved"
        /\ ret.value.def
        /\ ret.value.v = KnownRecords(ret.uris)

\* C3: after a completed rebuild with database D the keys of the per-file map are
\* exactly the absolute source paths of the valid records of D.
C3_KeysAreDatabasePaths ==
    UpdateCompleted =>
        DOMAIN sourceFileConfigurations =
            { AbsoluteSourcePath(AllCommands[ret.db[i]]) : i \in ValidPositions }

\* C3 witness: a completed rebuild whose only record is the clang command, after
\* an earlier rebuild had stored another file (its data is still in an aggregate)
C3_Witness ==
    /\ UpdateCompleted
    /\ ret.db = <<3>>
    /\ DOMAIN sourceFileConfigurations = { <<"/","w">> }
    /\ \E f \in DOMAIN workspaceBrowsePaths : Len(workspaceBrowsePaths[f]) > 0

\* C4: rebuild is idempotent: rebuilding again with the database, platform and
\* architecture of the rebuild just made leaves the per-file map and every folder
\* aggregate (element order included) as they are, and ends the same way.
C4_RebuildIdempotent ==
    LastUpdate =>
        LET r == UpdateResult(IndexState, ret.db, workspaceFolders,
                              ret.platform, ret.architecture)
        IN  /\ r.sfc = sourceFileConfigurations
            /\ r.wbp = workspaceBrowsePaths
            /\ r.wca = workspaceCompilerArgs
            /\ r.wc = workspaceCompiler
            /\ r.ws = workspaceStandard
            /\ r.threw = (ret.status = "threw")

\* C4 witness: a completed rebuild that stored a record and folded include
\* directories and arguments into an aggregate
C4_Witness ==
    /\ UpdateCompleted
    /\ Len(ret.db) > 0
    /\ DOMAIN sourceFileConfigurations # {}
    /\ \E f \in DOMAIN workspaceBrowsePaths :
          /\ Len(workspaceBrowsePaths[f]) > 0
          /\ Len(workspaceCompilerArgs[f]) > 0

\* C5: when several valid records of one database resolve to the same path, the
\* stored record is the configuration of the last of them alone.
C5_LastEntryWins ==
    UpdateCompleted =>
        \A i \in ValidPositions :
            (\A j \in ValidPositions :
                j > i => AbsoluteSourcePath(AllCommands[ret.db[j]])
                            # AbsoluteSourcePath(AllCommands[ret.db[i]]))
            => sourceFileConfigurations[AbsoluteSourcePath(AllCommands[ret.db[i]])]
                  = ConfigAt(i)

\* C5 witness: a completed rebuild of two different records for one path
C5_Witness ==
    /\ UpdateCompleted
    /\ Len(ret.db) = 2
    /\ ret.db[1] # ret.db[2]
    /\ ValidPositions = {1, 2}
    /\ AbsoluteSourcePath(AllCommands[ret.db[1]])
          = AbsoluteSourcePath(AllCommands[ret.db[2]])
    /\ ConfigAt(1) # ConfigAt(2)

\* a record with text directory and file and an array of text tokens that has a
\* compiler path at element 1
IsWellFormed(i) ==
    /\ AllCommands[i].directory.t = "string"
    /\ AllCommands[i].file.t = "string"
    /\ ArgumentsReadable(AllCommands[i].arguments)

\* C6: a malformed record is skipped without aborting the rebuild and without
\* effect on the other records: a rebuild leaves the index that the rebuild of
\* the database without its malformed records leaves, and returns.
C6_MalformedSkipped ==
    [][ (ret = Idle /\ ret'.op = "updateCompileCommands") =>
          LET r == UpdateResult(IndexState, SelectSeq(ret'.db, IsWellFormed),
                                workspaceFolders, ret'.platform, ret'.architecture)
          IN  /\ ret'.status = "returned"
              /\ sourceFileConfigurations' = r.sfc
              /\ workspaceBrowsePaths' = r.wbp
              /\ workspaceCompilerArgs' = r.wca
              /\ workspaceCompiler' = r.wc
              /\ workspaceStandard' = r.ws ]_vars

\* C7: canProvideConfiguration(path) resolves to true exactly when path is a key
\* of the per-file map; after a completed rebuild that is the case for exactly
\* the absolute source paths of the valid records of the database.
C7_CanProvideIffKey ==
    /\ ret.op = "canProvideConfiguration" =>
          /\ ret.status = "resolved"
          /\ ret.value = (ret.fsPath \in DOMAIN sourceFileConfigurations)
    /\ UpdateCompleted =>
          LET paths == { AbsoluteSourcePath(AllCommands[ret.db[i]]) :
                            i \in ValidPositions }
          IN  \A p \in QueryFiles \cup paths :
                  HasConfiguration(p) = (p \in paths)

\* C7 witness: the query answered false for a path that is a proper prefix of a key
C7_Witness ==
    /\ ret.op = "canProvideConfiguration"
    /\ ret.value = FALSE
    /\ \E k \in DOMAIN sourceFileConfigurations :
          k # ret.fsPath /\ StartsWith(k, ret.fsPath)

\* C8: provideFolderBrowseConfiguration(folder) resolves to the aggregate of
\* exactly that folder when it is tracked and to null when it is not.
C8_FolderBrowseOwnAggregate ==
    ret.op = "provideFolderBrowseConfiguration" =>
        /\ ret.status = "resolved"
        /\ IF ret.fsPath \in DOMAIN workspaceBrowsePaths
           THEN /\ ~ret.value.isNull
                /\ ret.value.browsePath = MapGet(workspaceBrowsePaths, ret.fsPath)
                /\ ret.value.compilerArgs = MapGet(workspaceCompilerArgs, ret.fsPath)
                /\ ret.value.compilerPath = MapGet(workspaceCompiler, ret.fsPath)
                /\ ret.value.standard = MapGet(workspaceStandard, ret.fsPath)
           ELSE ret.value.isNull

\* C8 witness: the query for a tracked folder that is not the primary one, whose
\* aggregate differs from the primary folder's
C8_Witness ==
    /\ ret.op = "provideFolderBrowseConfiguration"
    /\ ret.fsPath \in DOMAIN workspaceBrowsePaths
    /\ ret.fsPath # workspaceFolders[1]
    /\ workspaceBrowsePaths[ret.fsPath] # workspaceBrowsePaths[workspaceFolders[1]]

\* C9: provideBrowseConfiguration resolves to the aggregate of the first
\* workspace folder, and to an absent result, not a failure, when there is none.
C9_BrowseOfFirstFolderOrAbsent ==
    ret.op = "provideBrowseConfiguration" =>
        /\ ret.status = "resolved"
        /\ Len(workspaceFolders) > 0 =>
              ret.value = BrowseConfiguration(workspaceFolders[1])

\* C10: canProvideBrowseConfiguration and canProvideBrowseConfigurationsPerFolder
\* resolve to true exactly when a folder is tracked, whatever its aggregate
\* holds, and no step changes that answer.
C10_CanProvideBrowseConstant ==
    /\ [](ret.op \in {"canProvideBrowseConfiguration",
                      "canProvideBrowseConfigurationsPerFolder"} =>
             /\ ret.status = "resolved"
             /\ ret.value = (DOMAIN workspaceBrowsePaths # {}))
    /\ [][HasBrowseConfiguration' = HasBrowseConfiguration]_vars

\* C10 witness: the answer is true while every aggregate is still empty, and an
\* earlier rebuild has completed
C10_Witness ==
    /\ ret.op = "canProvideBrowseConfiguration"
    /\ ret.value = TRUE
    /\ \A f \in DOMAIN workspaceBrowsePaths : Len(workspaceBrowsePaths[f]) = 0
    /\ DOMAIN sourceFileConfigurations # {}

\* C11: from construction onward an aggregate with defined include-directory and
\* argument lists exists for every workspace folder configured at construction;
\* no step removes a folder's aggregate or adds a folder to the tracked set.
C11_AggregatesExistForConstructionFolders ==
    /\ DOMAIN workspaceBrowsePaths
          = { workspaceFolders[i] : i \in 1..Len(workspaceFolders) }
    /\ DOMAIN workspaceCompilerArgs = DOMAIN workspaceBrowsePaths
    /\ [][ /\ DOMAIN workspaceBrowsePaths' = DOMAIN workspaceBrowsePaths
           /\ DOMAIN workspaceCompilerArgs' = DOMAIN workspaceCompilerArgs ]_vars

\* C11 witness: a rebuild has stored a record while the open workspace folders
\* are no longer the folders configured at construction
C11_Witness ==
    /\ LastUpdate
    /\ DOMAIN sourceFileConfigurations # {}
    /\ DOMAIN workspaceBrowsePaths
          # { workspaceFolders[i] : i \in 1..Len(workspaceFolders) }

\* ---- the classifier and the resolver, on one-record databases

\* the arguments and the directory of the only record of the last rebuild, and
\* the per-file record the rebuild stored for it
TheArgs == ArgStrings(AllCommands[ret.db[1]].arguments)
TheDirectory == AllCommands[ret.db[1]].directory.s
TheRecord == sourceFileConfigurations[AbsoluteSourcePath(AllCommands[ret.db[1]])]

\* the last call was a completed rebuild from one record
OneRecordRebuilt == UpdateCompleted /\ Len(ret.db) = 1 /\ ValidPositions = {1}

\* the closed set of standard identifiers
ClosedStandardSet ==
    { <<"c","8","9">>,
      <<"c","9","9">>,
      <<"c","1","1">>,
      <<"c","1","7">>,
      <<"g","n","u","8","9">>,
      <<"g","n","u","9","9">>,
      <<"g","n","u","1","1">>,
      <<"g","n","u","1","7">>,
      <<"c","+","+","9","8">>,
      <<"c","+","+","0","3">>,
      <<"c","+","+","1","1">>,
      <<"c","+","+","1","4">>,
      <<"c","+","+","1","7">>,
      <<"c","+","+","2","0">>,
      <<"g","n","u","+","+","9","8">>,
      <<"g","n","u","+","+","0","3">>,
      <<"g","n","u","+","+","1","1">>,
      <<"g","n","u","+","+","1","4">>,
      <<"g","n","u","+","+","1","7">>,
      <<"g","n","u","+","+","2","0">> }

\* the flavor prefix as claimed: "/" when the lower-cased base name of element 1
\* is "cl", "-" otherwise
ClaimedPrefix(args) ==
    IF ToLowerCase(Basename(args[2])) = <<"c","l">> THEN <<"/">> ELSE <<"-">>

\* the arguments that start with the option pre followed by opt, in order
OptionsOf(args, pre, opt) ==
    SelectSeq(args, LAMBDA arg : StartsWith(arg, pre \o opt))

\* the include paths claimed for the prefix pre: the text after two characters of
\* every {pre}I argument, resolved against dir unless absolute
ClaimedIncludes(dir, args, pre) ==
    LET incs == OptionsOf(args, pre, <<"I">>)
    IN  [k \in 1..Len(incs) |->
            IF IsAbsolute(Substring(incs[k], 2)) THEN Substring(incs[k], 2)
            ELSE PathJoin(dir, Substring(incs[k], 2))]

\* the defines claimed for the prefix pre
ClaimedDefines(args, pre) ==
    LET defs == OptionsOf(args, pre, <<"D">>)
    IN  [k \in 1..Len(defs) |-> Substring(defs[k], 2)]

\* the pass-through arguments claimed for the prefix pre
ClaimedPassThrough(args, pre) ==
    SelectSeq(args, LAMBDA arg :
        /\ StartsWith(arg, pre)
        /\ ~StartsWith(arg, pre \o <<"I">>)
        /\ ~StartsWith(arg, pre \o <<"D">>)
        /\ ~StartsWith(arg, pre \o <<"o">>)
        /\ ~StartsWith(arg, pre \o <<"s","t","d">>))

\* the standard claimed for the prefix pre: the value of the first {pre}std
\* argument carrying the flavor's separator, c++20 when there is none or the
\* value is outside the closed set
ClaimedStandard(args, pre) ==
    LET sep  == IF pre = <<"/">> THEN <<":">> ELSE <<"=">>
        stds == OptionsOf(args, pre, <<"s","t","d">> \o sep)
    IN  IF Len(stds) > 0 /\ Substring(stds[1], 5) \in ClosedStandardSet
        THEN Substring(stds[1], 5)
        ELSE <<"c","+","+","2","0">>

\* C12: the flavor is MSVC exactly when the lower-cased base name of arguments[1]
\* is "cl"; include, define, standard and pass-through extraction use "/" for an
\* MSVC record and "-" for any other, options of the other prefix add nothing.
C12_FlavorSelectsPrefix ==
    OneRecordRebuilt =>
        LET pre == ClaimedPrefix(TheArgs)
        IN  /\ TheRecord.includePath = ClaimedIncludes(TheDirectory, TheArgs, pre)
            /\ TheRecord.defines = ClaimedDefines(TheArgs, pre)
            /\ TheRecord.compilerArgs = ClaimedPassThrough(TheArgs, pre)
            /\ TheRecord.standard = ClaimedStandard(TheArgs, pre)

\* C12 witness: a rebuilt record whose compiler is CL and whose arguments carry
\* -I and -D options, none of which reached the record
C12_Witness ==
    /\ OneRecordRebuilt
    /\ Basename(TheArgs[2]) = <<"C","L">>
    /\ Len(OptionsOf(TheArgs, <<"-">>, <<"I">>)) > 0
    /\ Len(OptionsOf(TheArgs, <<"-">>, <<"D">>)) > 0
    /\ Len(TheRecord.includePath) = Len(OptionsOf(TheArgs, <<"/">>, <<"I">>))
    /\ Len(TheRecord.defines) = Len(OptionsOf(TheArgs, <<"/">>, <<"D">>))

\* C13: the record whose compiler path is C:\VC\cl.exe, with /I..\inc, /DBAR,
\* /std:c++14 and /W4, is treated as MSVC: its include path comes from the /I
\* argument, its standard is c++14 and its compilerArgs contain /W4.
C13_ClExeIsMSVC ==
    (OneRecordRebuilt /\ TheArgs[2] = <<"C",":","\\","V","C","\\","c","l",".","e","x","e">>) =>
        /\ TheRecord.includePath = ClaimedIncludes(TheDirectory, TheArgs, <<"/">>)
        /\ Len(TheRecord.includePath) = 1
        /\ TheRecord.standard = <<"c","+","+","1","4">>
        /\ Contains(TheRecord.compilerArgs, <<"/","W","4">>)

\* the Unix scenario record has just been rebuilt
UnixScenarioRebuilt ==
    /\ OneRecordRebuilt
    /\ TheDirectory = <<"/","p">>
    /\ AbsoluteSourcePath(AllCommands[ret.db[1]]) = <<"/","p","/","a",".","c","p","p">>
    /\ TheArgs = <<<<"s","h">>, <<"/","u","s","r","/","b","i","n","/","g","+","+">>, <<"-","I",".",".","/","i","n","c">>, <<"-","D","F","O","O">>, <<"-","s","t","d","=","c","+","+","1","7">>, <<"-","W","a","l","l">>>>

\* C14 as stated: the Unix scenario record gets includePath ["/p/../inc"],
\* defines ["FOO"], compilerPath "/usr/bin/g++", compilerArgs ["-Wall"] and
\* standard "c++17".
C14_UnixScenarioAsStated ==
    UnixScenarioRebuilt =>
        /\ TheRecord.includePath = <<<<"/","p","/",".",".","/","i","n","c">>>>
        /\ TheRecord.defines = <<<<"F","O","O">>>>
        /\ TheRecord.compilerPath = <<"/","u","s","r","/","b","i","n","/","g","+","+">>
        /\ TheRecord.compilerArgs = <<<<"-","W","a","l","l">>>>
        /\ TheRecord.standard = <<"c","+","+","1","7">>

\* C14 amended: the Unix scenario record gets includePath ["/inc"], the
\* normalised join of the directory and the relative include text; defines
\* ["FOO"], compilerPath "/usr/bin/g++", compilerArgs ["-Wall"], standard "c++17".
C14_UnixScenarioNormalised ==
    UnixScenarioRebuilt =>
        /\ TheRecord.includePath = <<<<"/","i","n","c">>>>
        /\ TheRecord.defines = <<<<"F","O","O">>>>
        /\ TheRecord.compilerPath = <<"/","u","s","r","/","b","i","n","/","g","+","+">>
        /\ TheRecord.compilerArgs = <<<<"-","W","a","l","l">>>>
        /\ TheRecord.standard = <<"c","+","+","1","7">>

\* C14 witness: the Unix scenario record was rebuilt and its one include path
\* was stored
C14_Witness ==
    /\ UnixScenarioRebuilt
    /\ Len(TheRecord.includePath) = 1

\* the values of the standard arguments of the record's own flavor
StandardValues ==
    LET pre  == ClaimedPrefix(TheArgs)
        sep  == IF pre = <<"/">> THEN <<":">> ELSE <<"=">>
        stds == OptionsOf(TheArgs, pre, <<"s","t","d">> \o sep)
    IN  [k \in 1..Len(stds) |-> Substring(stds[k], 5)]

\* C15: a standard value of the closed set is stored unchanged; a record with
\* no standard argument, or with a value outside the closed set, gets c++20; the
\* stored standard is always a member of the closed set.
C15_StandardResolution ==
    OneRecordRebuilt =>
        /\ TheRecord.standard \in ClosedStandardSet
        /\ Cardinality(ClosedStandardSet) = 20
        /\ (Len(StandardValues) > 0 /\ StandardValues[1] \in ClosedStandardSet)
              => TheRecord.standard = StandardValues[1]
        /\ (Len(StandardValues) = 0 \/ StandardValues[1] \notin ClosedStandardSet)
              => TheRecord.standard = <<"c","+","+","2","0">>

\* C15 witness: a record carrying -std=c++23 was rebuilt and stored with c++20
C15_Witness ==
    /\ OneRecordRebuilt
    /\ Contains(TheArgs, <<"-","s","t","d","=","c","+","+","2","3">>)
    /\ TheRecord.standard = <<"c","+","+","2","0">>

\* the lower-cased base name of the record's compiler, and the three families
TheCompiler == ToLowerCase(Basename(TheArgs[2]))
Families == { <<"m","s","v","c">>, <<"g","c","c">>, <<"c","l","a","n","g">> }

\* C16: for a compiler base name in {msvc, gcc, clang} the IntelliSense mode is
\* <family>-x86 when the architecture is exactly "x86" and <family>-x64 for
\* every other label.
C16_ArchitectureCanonicalised ==
    (OneRecordRebuilt /\ TheCompiler \in Families) =>
        TheRecord.intelliSenseMode =
            TheCompiler \o <<"-">> \o
                (IF ret.architecture = <<"x","8","6">> THEN <<"x","8","6">>
                 ELSE <<"x","6","4">>)

\* C16 witness: a gcc record rebuilt for architecture arm64 got gcc-x64
C16_Witness ==
    /\ OneRecordRebuilt
    /\ TheCompiler = <<"g","c","c">>
    /\ ret.architecture = <<"a","r","m","6","4">>
    /\ TheRecord.intelliSenseMode = <<"g","c","c","-","x","6","4">>

\* C17: a record whose lower-cased compiler base name is not msvc, gcc or clang
\* gets IntelliSense mode msvc-x86 whatever the architecture, and the rebuild
\* returns without an error.
C17_UnmatchedPairDefaults ==
    (/\ ret.op = "updateCompileCommands"
     /\ Len(ret.db) = 1
     /\ ValidPositions = {1}
     /\ TheCompiler \notin Families) =>
        /\ ret.status = "returned"
        /\ TheRecord.intelliSenseMode = <<"m","s","v","c","-","x","8","6">>

\* C17 witness: a cl record rebuilt for architecture x64 got msvc-x86
C17_Witness ==
    /\ OneRecordRebuilt
    /\ TheCompiler = <<"c","l">>
    /\ ret.architecture = <<"x","6","4">>
    /\ TheRecord.intelliSenseMode = <<"m","s","v","c","-","x","8","6">>

\* C18: compilerArgs are, in order, the arguments that start with the flavor
\* prefix and not with {prefix}I, {prefix}D, {prefix}o or {prefix}std; none of
\* them is an include or a define argument, and each starts with the prefix.
C18_PassThroughArgs ==
    OneRecordRebuilt =>
        LET pre == ClaimedPrefix(TheArgs)
        IN  /\ TheRecord.compilerArgs = ClaimedPassThrough(TheArgs, pre)
            /\ \A k \in 1..Len(TheRecord.compilerArgs) :
                  /\ StartsWith(TheRecord.compilerArgs[k], pre)
                  /\ ~Contains(OptionsOf(TheArgs, pre, <<"I">>), TheRecord.compilerArgs[k])
                  /\ ~Contains(OptionsOf(TheArgs, pre, <<"D">>), TheRecord.compilerArgs[k])

\* C18 witness: of -stdlib=libc++, -openmp, -o, -oout, -O2, -isystem and -Wall
\* only -O2, -isystem and -Wall were passed through
C18_Witness ==
    /\ OneRecordRebuilt
    /\ Contains(TheArgs, <<"-","s","t","d","l","i","b","=","l","i","b","c","+","+">>)
    /\ Contains(TheArgs, <<"-","o","p","e","n","m","p">>)
    /\ Contains(TheArgs, <<"-","o","o","u","t">>)
    /\ TheRecord.compilerArgs = <<<<"-","O","2">>, <<"-","i","s","y","s","t","e","m">>, <<"-","W","a","l","l">>>>

\* C19: includePath has one element per {prefix}I argument, in argument order,
\* duplicates kept: the text after the first two characters, verbatim when
\* absolute, otherwise resolved against the record's directory.
C19_IncludePathPerArgument ==
    OneRecordRebuilt =>
        LET incs == OptionsOf(TheArgs, ClaimedPrefix(TheArgs), <<"I">>)
        IN  /\ Len(TheRecord.includePath) = Len(incs)
            /\ \A k \in 1..Len(incs) :
                  LET text == Substring(incs[k], 2)
                  IN  TheRecord.includePath[k] =
                          IF IsAbsolute(text) THEN text
                          ELSE PathJoin(TheDirectory, text)

\* C19 witness: a record with a repeated relative include and an absolute
\* include was rebuilt; the repeated path is stored twice
C19_Witness ==
    /\ OneRecordRebuilt
    /\ Len(TheRecord.includePath) = 5
    /\ TheRecord.includePath[1] = TheRecord.includePath[3]
    /\ TheRecord.includePath[2] = <<"/","j","/",".",".","/","k">>

\* C20: defines are, in argument order, the text after the first two characters
\* of every {prefix}D argument, neither split at "=" nor deduplicated.
C20_DefinesVerbatim ==
    OneRecordRebuilt =>
        LET defs == OptionsOf(TheArgs, ClaimedPrefix(TheArgs), <<"D">>)
        IN  /\ Len(TheRecord.defines) = Len(defs)
            /\ \A k \in 1..Len(defs) :
                  <<ClaimedPrefix(TheArgs)[1], "D">> \o TheRecord.defines[k] = defs[k]

\* C20 witness: -DNAME=VALUE was given twice and is stored twice as NAME=VALUE
C20_Witness ==
    /\ OneRecordRebuilt
    /\ Len(TheRecord.defines) = 4
    /\ TheRecord.defines[1] = <<"N","A","M","E","=","V","A","L","U","E">>
    /\ TheRecord.defines[3] = <<"N","A","M","E","=","V","A","L","U","E">>

\* the positions of the standard arguments of the record's own flavor
StandardPositions ==
    LET pre == ClaimedPrefix(TheArgs)
        sep == IF pre = <<"/">> THEN <<":">> ELSE <<"=">>
    IN  { k \in 1..Len(TheArgs) : StartsWith(TheArgs[k], pre \o <<"s","t","d">> \o sep) }

\* C21: with several standard arguments the stored standard is decided by the
\* first one alone, from the text after its first five characters: the record
\* cut after that argument resolves to the same standard, and an argument such
\* as -stdlib=libc++ before it is not taken for a standard argument.
C21_FirstStandardArgumentDecides ==
    (OneRecordRebuilt /\ StandardPositions # {}) =>
        LET first == CHOOSE k \in StandardPositions : \A j \in StandardPositions : k <= j
            value == Substring(TheArgs[first], 5)
        IN  /\ TheRecord.standard =
                  IF value \in ClosedStandardSet THEN value ELSE <<"c","+","+","2","0">>
            /\ TheRecord.standard = findStandard(SubSeq(TheArgs, 1, first))

\* C21 witness: -stdlib=libc++, -std=c++17 and -std=gnu11 in this order gave c++17
C21_Witness ==
    /\ OneRecordRebuilt
    /\ Cardinality(StandardPositions) = 2
    /\ TheArgs[3] = <<"-","s","t","d","l","i","b","=","l","i","b","c","+","+">>
    /\ TheArgs[5] = <<"-","s","t","d","=","g","n","u","1","1">>
    /\ TheRecord.standard = <<"c","+","+","1","7">>

\* ---- attribution and folding

\* the step is a call of updateCompileCommands / one that ran to its end
RebuildStep == ret = Idle /\ ret'.op = "updateCompileCommands"
RebuildStepCompleted == RebuildStep /\ ret'.status = "returned"

\* the folders registered at construction: the keys of the list-valued maps
TrackedFolders == DOMAIN workspaceBrowsePaths

\* the folders open in the workspace
OpenFolders == { workspaceFolders[j] : j \in 1..Len(workspaceFolders) }

\* the aggregate of folder f in the four maps given
AggregateAt(f, wbp, wca, wc, ws) ==
    << wbp[f], wca[f], MapGet(wc, f), MapGet(ws, f) >>

\* the tracked folders whose aggregate the step changes
FoldersChanged ==
    { f \in TrackedFolders :
        AggregateAt(f, workspaceBrowsePaths', workspaceCompilerArgs',
                    workspaceCompiler', workspaceStandard')
          # AggregateAt(f, workspaceBrowsePaths, workspaceCompilerArgs,
                        workspaceCompiler, workspaceStandard) }

\* C22: during one rebuild a record contributes to the aggregate of at most one
\* folder: the rebuild of a database of one record changes the aggregate of at
\* most one tracked folder.
C22_RecordFoldedIntoOneFolder ==
    [][ (RebuildStepCompleted /\ Len(ret'.db) = 1) =>
            Cardinality(FoldersChanged) <= 1 ]_vars

\* the relative path from the source file of every readable record to every
\* folder, computed once
RelativeTable ==
    [ i \in ReadableCommands |->
        [ f \in Folders |-> PathRelative(AbsoluteSourcePath(AllCommands[i]), f) ] ]

\* the relative path from the source file of record i to folder f starts with "."
RelativeStartsWithDot(i, f) ==
    Len(RelativeTable[i][f]) > 0 /\ RelativeTable[i][f][1] = "."

\* the positions of the database of the step's rebuild whose record is valid and
\* whose relative path to folder f starts with "."
PassingPositions(f) ==
    { k \in 1..Len(ret'.db) :
        IsValidCommand(AllCommands[ret'.db[k]]) /\ RelativeStartsWithDot(ret'.db[k], f) }

\* after the step the aggregate of f holds the include paths and the arguments of
\* the record at position k, and has a compiler path and a standard
FoldedAfterStep(k, f) ==
    LET cfg == ConfigTable[ret'.db[k]][ret'.platform][ret'.architecture]
    IN  /\ \A n \in 1..Len(cfg.includePath) :
              Contains(workspaceBrowsePaths'[f], cfg.includePath[n])
        /\ \A n \in 1..Len(cfg.compilerArgs) :
              Contains(workspaceCompilerArgs'[f], cfg.compilerArgs[n])
        /\ f \in DOMAIN workspaceCompiler'
        /\ f \in DOMAIN workspaceStandard'

\* the attribution rule for the folders given: a record whose relative path
\* starts with "." is folded into the folder, and a folder no record of the
\* database passes the test for keeps its aggregate
AttributionRuleOn(folders) ==
    \A f \in folders :
        /\ \A k \in PassingPositions(f) : FoldedAfterStep(k, f)
        /\ PassingPositions(f) = {} => f \notin FoldersChanged

\* C23 as stated: a valid record is folded into a tracked folder's aggregate if
\* and only if the relative path from its source file to the folder starts with
\* "."; an empty or a plain descending relative path leaves the aggregate as it is.
C23_FoldedIffRelativeStartsWithDot ==
    [][ RebuildStepCompleted => AttributionRuleOn(TrackedFolders) ]_vars

\* C23 amended: the same for every tracked folder that is open in the workspace
\* when the rebuild runs; a tracked folder that was closed since construction is
\* not visited and keeps its aggregate.
C23_FoldedIffOpenAndRelativeStartsWithDot ==
    [][ RebuildStepCompleted =>
          /\ AttributionRuleOn(TrackedFolders \cap OpenFolders)
          /\ \A f \in TrackedFolders \ OpenFolders : f \notin FoldersChanged ]_vars

\* C23 witness: a completed rebuild of two valid records, one ".." away from a
\* tracked open folder and folded into it, the other at the folder's own path
\* (empty relative path) and not folded
C23_Witness ==
    /\ UpdateCompleted
    /\ ValidPositions = {1, 2}
    /\ \E f \in TrackedFolders \cap OpenFolders :
          /\ RelativeTable[ret.db[1]][f] = <<".", ".">>
          /\ RelativeTable[ret.db[2]][f] = <<>>
          /\ workspaceCompiler[f] = ConfigAt(1).compilerPath
          /\ workspaceCompiler[f] # ConfigAt(2).compilerPath

\* the positions of the database of the last rebuild whose record was attributed
\* to folder f: the record is valid, the rebuild visited f and the relative path
\* from the record's source file to f starts with "."
AttributedPositions(f) ==
    { k \in ValidPositions : f \in OpenFolders /\ RelativeStartsWithDot(ret.db[k], f) }

\* the configuration of the record at position k of the last rebuild's database
ConfigOfPosition(k) == ConfigTable[ret.db[k]][ret.platform][ret.architecture]

\* C24: after a completed rebuild, every tracked folder some valid record of the
\* database is attributed to has the compiler path and the standard of the last
\* attributed record in database order, not of a later record that is not
\* attributed to it.
C24_LastAttributedEntryWins ==
    UpdateCompleted =>
        \A f \in TrackedFolders :
            AttributedPositions(f) # {} =>
                LET last == CHOOSE k \in AttributedPositions(f) :
                                \A j \in AttributedPositions(f) : j <= k
                IN  /\ workspaceCompiler[f] = ConfigOfPosition(last).compilerPath
                    /\ workspaceStandard[f] = ConfigOfPosition(last).standard

\* C24 witness: a completed rebuild of two valid records with different
\* compilers and standards, the second of which is not attributed to a folder
\* that has the compiler and the standard of the first
C24_Witness ==
    /\ UpdateCompleted
    /\ Len(ret.db) = 2
    /\ \E f \in TrackedFolders :
          /\ AttributedPositions(f) = {1}
          /\ 2 \in ValidPositions
          /\ ConfigOfPosition(1).compilerPath # ConfigOfPosition(2).compilerPath
          /\ ConfigOfPosition(1).standard # ConfigOfPosition(2).standard
          /\ workspaceStandard[f] = ConfigOfPosition(1).standard

\* no two elements of the list are equal
NoDuplicates(list) ==
    \A m, n \in 1..Len(list) : m # n => list[m] # list[n]

\* C25: in every reachable state the include-directory list and the argument
\* list of every tracked folder hold no two equal strings.
C25_AggregatesHaveNoDuplicates ==
    \A f \in TrackedFolders :
        /\ NoDuplicates(workspaceBrowsePaths[f])
        /\ NoDuplicates(workspaceCompilerArgs[f])

\* C25 witness: a completed rebuild of two records, the first of which repeats
\* an include path, which the aggregate of a folder both are attributed to
\* holds once
C25_Witness ==
    /\ UpdateCompleted
    /\ Len(ret.db) = 2
    /\ ~NoDuplicates(ConfigOfPosition(1).includePath)
    /\ \E f \in TrackedFolders :
          /\ AttributedPositions(f) = {1, 2}
          /\ Contains(workspaceBrowsePaths[f], ConfigOfPosition(1).includePath[1])
          /\ Len(workspaceBrowsePaths[f]) >= 2

\* the elements of incoming that are not in old, each at its first occurrence,
\* in the order of incoming
FirstSeen(old, incoming) ==
    LET F[n \in 0..Len(incoming)] ==
            IF n = 0 THEN <<>>
            ELSE IF /\ ~Contains(old, incoming[n])
                    /\ \A m \in 1..(n - 1) : incoming[m] # incoming[n]
                 THEN Append(F[n - 1], incoming[n])
                 ELSE F[n - 1]
    IN  F[Len(incoming)]

\* the include paths, or with args the pass-through arguments, of the records of
\* the step's database that are attributed to folder f, in database order
IncomingOf(f, args) ==
    LET G[k \in 0..Len(ret'.db)] ==
            IF k = 0 THEN <<>>
            ELSE IF f \in OpenFolders /\ k \in PassingPositions(f)
                 THEN LET cfg == ConfigTable[ret'.db[k]][ret'.platform][ret'.architecture]
                      IN  G[k - 1] \o (IF args THEN cfg.compilerArgs ELSE cfg.includePath)
                 ELSE G[k - 1]
    IN  G[Len(ret'.db)]

\* C30: after a completed rebuild every include path and every pass-through
\* argument of a valid record attributed to a tracked folder is in the folder's
\* aggregate, and the lists keep first-seen order: what a list held stays in
\* front, followed by the new elements in the order they were first folded.
C30_FoldedInFirstSeenOrder ==
    [][ RebuildStepCompleted =>
          \A f \in TrackedFolders :
              /\ f \in OpenFolders => \A k \in PassingPositions(f) : FoldedAfterStep(k, f)
              /\ workspaceBrowsePaths'[f] =
                    workspaceBrowsePaths[f]
                        \o FirstSeen(workspaceBrowsePaths[f], IncomingOf(f, FALSE))
              /\ workspaceCompilerArgs'[f] =
                    workspaceCompilerArgs[f]
                        \o FirstSeen(workspaceCompilerArgs[f], IncomingOf(f, TRUE)) ]_vars

\* C30 witness: a completed rebuild of two records attributed to one folder, whose
\* aggregate lists start with an element of the first record alone and end with
\* an element of the second alone
C30_Witness ==
    /\ UpdateCompleted
    /\ Len(ret.db) = 2
    /\ \E f \in TrackedFolders :
          LET wbp == workspaceBrowsePaths[f]
              wca == workspaceCompilerArgs[f]
          IN  /\ AttributedPositions(f) = {1, 2}
              /\ Len(wbp) = 2 /\ Len(wca) > 1
              /\ Contains(ConfigOfPosition(1).includePath, wbp[1])
              /\ ~Contains(ConfigOfPosition(2).includePath, wbp[1])
              /\ Contains(ConfigOfPosition(2).includePath, wbp[2])
              /\ Contains(ConfigOfPosition(1).compilerArgs, wca[1])
              /\ ~Contains(ConfigOfPosition(2).compilerArgs, wca[1])
              /\ Contains(ConfigOfPosition(2).compilerArgs, wca[Len(wca)])

\* ---- the platform and the architecture

\* C28: the platform does not influence the index: a rebuild from the same
\* state with the same database and any platform, and with any architecture
\* label that agrees on being "x86", leaves the same per-file records, the same
\* folder aggregates and the same outcome.
C28_PlatformHasNoInfluence ==
    [][ RebuildStep =>
          \A q \in Platforms, b \in AllArchitectures :
              ((b = <<"x","8","6">>) <=> (ret'.architecture = <<"x","8","6">>)) =>
                  \A r \in { UpdateResult(IndexState, ret'.db, workspaceFolders, q, b) } :
                      /\ r.sfc = sourceFileConfigurations'
                      /\ r.wbp = workspaceBrowsePaths'
                      /\ r.wca = workspaceCompilerArgs'
                      /\ r.wc = workspaceCompiler'
                      /\ r.ws = workspaceStandard'
                      /\ r.threw = (ret'.status = "threw") ]_vars

\* C28 witness: a rebuild for the windows platform stored a gcc record with
\* IntelliSense mode gcc-x64
C28_Witness ==
    /\ UpdateCompleted
    /\ ret.platform = <<"w","i","n","d","o","w","s">>
    /\ \E path \in DOMAIN sourceFileConfigurations :
          /\ sourceFileConfigurations[path].compilerPath = <<"g","c","c">>
          /\ sourceFileConfigurations[path].intelliSenseMode = <<"g","c","c","-","x","6","4">>

\* the six IntelliSense modes of the three families and the two canonical
\* architectures
CanonicalModes ==
    { family \o <<"-">> \o arch :
        family \in Families, arch \in { <<"x","8","6">>, <<"x","6","4">> } }

\* C29: in every reachable state the IntelliSense mode of every stored record is
\* one of the six identifiers {msvc, gcc, clang} x {x86, x64}; no arm or arm64
\* mode is stored for any compiler name or architecture label.
C29_OnlyCanonicalModes ==
    \A path \in DOMAIN sourceFileConfigurations :
        sourceFileConfigurations[path].intelliSenseMode \in CanonicalModes

\* C29 witness: a clang record rebuilt for the architecture label arm is stored
\* with clang-x64
C29_Witness ==
    /\ OneRecordRebuilt
    /\ TheCompiler = <<"c","l","a","n","g">>
    /\ ret.architecture = <<"a","r","m">>
    /\ TheRecord.intelliSenseMode = <<"c","l","a","n","g","-","x","6","4">>

\* ---- rebuilds and queries in time

\* a canProvideConfiguration has answered false for the source file of a valid
\* record of the database of a rebuild that has not ended
PartialIndexObserved ==
    /\ ret.op = "canProvideConfiguration"
    /\ ret.value = FALSE
    /\ \E k \in 1..Len(frames) :
          \E n \in 1..Len(frames[k].db) :
              /\ IsValidCommand(AllCommands[frames[k].db[n]])
              /\ AbsoluteSourcePath(AllCommands[frames[k].db[n]]) = ret.fsPath

\* C26 as stated: the host can issue a query between a rebuild's clear step
\* and its end, and the query observes a partially populated index: whenever a
\* rebuild has started and not ended and the file p of a valid record of its
\* database is not stored yet, canProvideConfiguration(p) can be called, and so
\* answers false.
C26_QueryObservesPartialIndex ==
    \A k \in 1..Len(frames) :
        \A n \in frames[k].next..Len(frames[k].db) :
            \A fsPath \in QueryFiles :
                (/\ IsValidCommand(AllCommands[frames[k].db[n]])
                 /\ AbsoluteSourcePath(AllCommands[frames[k].db[n]]) = fsPath
                 /\ fsPath \notin DOMAIN sourceFileConfigurations)
                    => ENABLED canProvideConfiguration(fsPath)

\* C26 amended: no query is answered between a rebuild's clear step and its end:
\* while a rebuild has started and not ended, the one running call is that
\* rebuild, so no canProvideConfiguration has observed its partial index.
C26_NoQueryDuringRebuild ==
    frames # <<>> =>
        /\ ret = CallRunning(frames[1].db, frames[1].platform, frames[1].architecture)
        /\ ~PartialIndexObserved

\* C26 witness: a rebuild is between its clear step and its end, one valid record
\* of its database is stored and another is not yet
C26_Witness ==
    /\ Len(frames) = 1
    /\ DOMAIN sourceFileConfigurations # {}
    /\ \E n \in frames[1].next..Len(frames[1].db) :
          /\ IsValidCommand(AllCommands[frames[1].db[n]])
          /\ AbsoluteSourcePath(AllCommands[frames[1].db[n]])
                \notin DOMAIN sourceFileConfigurations

\* C27: a rebuild runs to its end before the next one begins, also when several
\* refreshes are in flight: at most one call of updateCompileCommands has
\* started and not ended.
C27_RebuildsDoNotOverlap == Len(frames) <= 1

\* C27 witness: a rebuild has processed its first command and has more to do
\* while the callback of another refresh is waiting
C27_Witness ==
    /\ Len(frames) = 1
    /\ frames[1].next > 1
    /\ frames[1].next <= Len(frames[1].db)
    /\ pendingReads > 0

\* ---- the read operations

ReadOperations ==
    { "canProvideConfiguration", "provideConfigurations",
      "canProvideBrowseConfiguration", "provideBrowseConfiguration",
      "canProvideBrowseConfigurationsPerFolder", "provideFolderBrowseConfiguration" }

\* C31: a read operation leaves the per-file map and every folder aggregate as
\* they are, for known and unknown arguments; a step that changes the index is a
\* call of updateCompileCommands.
C31_ReadsLeaveIndexUnchanged ==
    [][ /\ (ret = Idle /\ ret'.op \in ReadOperations) => index' = index
        /\ index' # index => (ret = Idle /\ ret'.op = "updateCompileCommands") ]_vars

\* C31 witness: with records stored and an aggregate filled, a folder query for
\* a folder without aggregate has resolved to null
C31_Witness ==
    /\ ret.op = "provideFolderBrowseConfiguration"
    /\ ret.value.isNull
    /\ DOMAIN sourceFileConfigurations # {}
    /\ \E f \in DOMAIN workspaceBrowsePaths : Len(workspaceBrowsePaths[f]) > 0

\* ---- folders opened after construction

\* C32: a rebuild that sees a workspace folder opened after construction still
\* runs to its end for all records, stores the per-file record of every valid
\* record, and folds only into the aggregates registered at construction: the
\* rebuild of a database of well-formed records returns, every record's source
\* path is a key of the per-file map, and no map gains a folder.
C32_RebuildWithAddedFolderCompletes ==
    [][ (/\ RebuildStep
         /\ OpenFolders \ TrackedFolders # {}
         /\ \A n \in 1..Len(ret'.db) : IsWellFormed(ret'.db[n])) =>
            /\ ret'.status = "returned"
            /\ \A n \in 1..Len(ret'.db) :
                  AbsoluteSourcePath(AllCommands[ret'.db[n]])
                      \in DOMAIN sourceFileConfigurations'
            /\ DOMAIN workspaceBrowsePaths' = TrackedFolders
            /\ DOMAIN workspaceCompiler' \subseteq TrackedFolders
            /\ DOMAIN workspaceStandard' \subseteq TrackedFolders ]_vars

\* C33: after every database refresh the provider ends up registered with the
\* code-intelligence host: when the rebuild of a refresh ends, the deregistration
\* and then the registration are under way, the registration last; and when the
\* last of them has taken effect the provider is registered.
C33_ProviderRegisteredAfterRefresh ==
    [][ /\ Len(frames') < Len(frames) =>
              /\ jobs' # <<>>
              /\ jobs'[Len(jobs')] = "register"
        /\ (jobs # <<>> /\ jobs' = <<>>) => registered' ]_vars

\* C34: plugin start-up happens at most once: whatever calls of startPlugin are
\* made, also while an earlier call is suspended at the explorer's init, one task
\* provider, one set of file watchers and one configuration provider are created.
C34_StartsAtMostOnce ==
    /\ created.taskProviders <= 1
    /\ created.watchers <= 1
    /\ created.providers <= 1

\* a build-like command begins in this step, as the call at the end of calls'
CommandBeginsStep ==
    /\ Len(calls') = Len(calls) + 1
    /\ calls'[Len(calls')].op \in BuildCommands

\* the options differ from those of the last "config" command: the user changed
\* the platform, architecture, mode or project since that command was issued
OptionChangeOutstanding == configured # NoConfig /\ option # configured

\* C35: after the user has changed the platform, architecture, build mode or
\* project root to a different value, the next build, rebuild, clean, run,
\* package, install or uninstall command runs the configure command, with the
\* options as they are, before its own command.
C35_ConfiguresAfterOptionChange ==
    [][ (CommandBeginsStep /\ OptionChangeOutstanding) =>
            /\ calls'[Len(calls')].at = "config"
            /\ configured' = option ]_vars

====
